---- MODULE Spec2Model ----
(***************************************************************************)
(* Model of the tinyclaw (Arisa) Gateway/Worker core:                      *)
(*   - the Invocation Queue of core/processor (processWithClaude,          *)
(*     flushChatQueue, processNext, runClaude),                            *)
(*   - the Bridge of daemon/bridge (sendToCore, handleStarting, handleUp,  *)
(*     runFallback, the fallbackQueue promise chain) with daemon/fallback, *)
(*   - the Supervisor of daemon/lifecycle (startCore, onExit, health       *)
(*     check, handleError, stopCore),                                      *)
(*   - Auth Recovery of daemon/claude-login and daemon/codex-login         *)
(*     (maybeStart..., startClaudeSetupToken, maybeFeedClaudeCode, the     *)
(*     login run and notifySuccess),                                       *)
(*   - the Fallback Invoker of daemon/agent-cli and daemon/fallback        *)
(*     (runWithCliFallback, fallbackClaude),                               *)
(*   - Auto-Repair of daemon/autofix (attemptAutoFix),                     *)
(*   - the Worker's /message handler of core/index with core/intent        *)
(*     (detectScheduleIntent, processWithClaude, processWithCodex),        *)
(*   - the Gateway's message handler of daemon/index (sendToCore, then     *)
(*     the sends to the channel),                                          *)
(*   - the Scheduler of core/scheduler (addTask, the cron callback,        *)
(*     executeTask, cancelAllChatTasks).                                   *)
(* Each component has its own specification over the shared variables.     *)
(***************************************************************************)
EXTENDS Integers, Sequences, FiniteSets, TLC

\* ---------------------------------------------------------------- bounds
MaxTickets == 4
MaxFairTickets == 3
MaxChats == 2
MaxMsgs == 3
MaxFairMsgs == 2
MaxPostCount == 3
WaitPolls == 2
MaxSpawns == 2
MaxCrashCount == 4
MaxTimers == 2
MaxProbes == 1
MaxRepairs == 2
MaxFewSpawns == 1
MaxFewTimers == 1
MaxFewRepairs == 1
MaxProcs == 2
MaxRuns == 2
MaxFixRuns == 2
MaxReqs == 2
MaxParts == 2
MaxWorkTickets == 2
MaxLoopChats == 1
MaxTasks == 1
MaxTaskChats == 1
MaxCancels == 1
MaxTaskTickets == 2

VARIABLES
  \* core/processor
  queue, processing, run, promise, meta, nextId, flushLog, lastOp,
  \* daemon/lifecycle
  coreProcess, alive, shouldRun, coreState, lastError, crashCount, lastCrash,
  healthCheckTimer, autofixInProgress, errorHandled, errorDebounce,
  streamOpen, startedBy, restartTimers, probesSent, probesOk, repairs, booted, errorsRaised,
  \* daemon/bridge
  msgs, fallbackQueue, fbRunning, arrived, chained, fbOrder,
  \* daemon/claude-login, daemon/codex-login
  loginInProgress, cooling, pendingChatIds, pendingProc, urlSent, loginPc,
  procs, exitCode, printed, stdinLocked, loginSent, lastLog, received, fed,
  \* daemon/agent-cli, daemon/fallback
  fbPc, candidates, attempted, failures, partial, cliProc, runLog, reply,
  cliErrorCheck,
  \* daemon/autofix
  attemptCount, sinceAttempt, fixFrames, fixLog,
  \* core/index, core/intent
  reqs, backendState, deps, verifiedCli,
  \* daemon/index
  handlers, delivered, chatOf,
  \* core/scheduler
  tasks, taskChat, activeJobs, inFlight, firing, execs, cancels, cancelled

queueVars == <<queue, processing, run, promise, meta, nextId, flushLog, lastOp>>
lifeVars == <<coreProcess, alive, shouldRun, coreState, lastError, crashCount,
              lastCrash, healthCheckTimer, autofixInProgress, errorHandled,
              errorDebounce, streamOpen, startedBy, restartTimers, probesSent, probesOk,
              repairs, booted, errorsRaised>>
bridgeVars == <<msgs, fallbackQueue, fbRunning, arrived, chained, fbOrder>>
loginVars == <<loginInProgress, cooling, pendingChatIds, pendingProc, urlSent,
               loginPc, procs, exitCode, printed, stdinLocked, loginSent,
               lastLog, received, fed>>
cliVars == <<fbPc, candidates, attempted, failures, partial, cliProc, runLog,
             reply, cliErrorCheck>>
fixVars == <<attemptCount, sinceAttempt, fixFrames, fixLog>>
\* the components added after the Bridge, the Supervisor and the queue
workVars == <<reqs, backendState, deps, verifiedCli>>
gwVars == <<handlers, delivered, chatOf>>
schedVars == <<tasks, taskChat, activeJobs, inFlight, firing, execs, cancels,
               cancelled>>
laterVars == <<workVars, gwVars, schedVars>>
restVars == <<cliVars, fixVars, laterVars>>
vars == <<queueVars, lifeVars, bridgeVars, loginVars, restVars>>

\* =========================================================================
\* core/processor: the Invocation Queue
\* =========================================================================
Tickets == 1..MaxTickets
Chats == 1..MaxChats
\* the optional chatId argument left out
NoChat == 0
QueueSource == {"user", "task"}
NoValue == [kind |-> "none", of |-> 0]
EmptyString == [kind |-> "empty", of |-> 0]

\* a queue entry {message, chatId, source, resolve}; id stands for the message
\* and for the promise whose resolve function the entry carries
Item(id, chatId, source) == [id |-> id, chatId |-> chatId, source |-> source]

\* no entry: the ticket is not submitted yet, or its entry has been resolved
\* and dropped
NoItem == Item(0, 0, "none")

RemoveAt(q, i) == SubSeq(q, 1, i - 1) \o SubSeq(q, i + 1, Len(q))

\* resolve(value) on a promise: the first call settles it, later calls are no-ops
Resolve(p, id, value) ==
  [p EXCEPT ![id] = [state |-> IF @.state = "pending" THEN "fulfilled" ELSE @.state,
                     value |-> IF @.state = "pending" THEN value ELSE @.value,
                     resolves |-> @.resolves + 1]]

RECURSIVE ResolveAll(_, _, _)
ResolveAll(p, ids, value) ==
  IF ids = <<>> THEN p
  ELSE ResolveAll(Resolve(p, Head(ids), value), Tail(ids), value)

\* a pick that ignores the source: always the head of the queue
PickIndexHead(q) == 1

\* queue.findIndex(q => q.source === "user"), 0 when there is none (-1 in JS)
RECURSIVE FindUser(_, _)
FindUser(q, i) ==
  IF i > Len(q) THEN 0
  ELSE IF q[i].source = "user" THEN i
  ELSE FindUser(q, i + 1)

\* const idx = userIdx >= 0 ? userIdx : 0  (1-based here)
PickIndex(q) == IF FindUser(q, 1) > 0 THEN FindUser(q, 1) ELSE 1

\* a guard that forgets the processing flag
ProcessNextIdleNoFlag(proc, q) == Len(q) = 0

\* a guard that leaves a queue of task entries alone
ProcessNextIdleUsersOnly(proc, q) == proc \/ FindUser(q, 1) = 0

\* if (processing || queue.length === 0) return;
ProcessNextIdle(proc, q) == proc \/ Len(q) = 0

\* a flush loop that does not look at the source of the entry
RECURSIVE FlushLoopAnySource(_, _, _)
FlushLoopAnySource(q, i, chatId) ==
  IF i < 1 THEN [queue |-> q, flushed |-> <<>>]
  ELSE IF q[i].chatId = chatId
       THEN LET r == FlushLoopAnySource(RemoveAt(q, i), i - 1, chatId)
            IN [queue |-> r.queue, flushed |-> <<q[i].id>> \o r.flushed]
       ELSE FlushLoopAnySource(q, i - 1, chatId)

\* a flush loop that stops after the first entry it removes
RECURSIVE FlushLoopFirstOnly(_, _, _)
FlushLoopFirstOnly(q, i, chatId) ==
  IF i < 1 THEN [queue |-> q, flushed |-> <<>>]
  ELSE IF q[i].chatId = chatId /\ q[i].source = "task"
       THEN [queue |-> RemoveAt(q, i), flushed |-> <<q[i].id>>]
       ELSE FlushLoopFirstOnly(q, i - 1, chatId)

\* the loop of flushChatQueue, from the last index down to the first
RECURSIVE FlushLoop(_, _, _)
FlushLoop(q, i, chatId) ==
  IF i < 1 THEN [queue |-> q, flushed |-> <<>>]
  ELSE IF q[i].chatId = chatId /\ q[i].source = "task"
       THEN LET r == FlushLoop(RemoveAt(q, i), i - 1, chatId)
            IN [queue |-> r.queue, flushed |-> <<q[i].id>> \o r.flushed]
       ELSE FlushLoop(q, i - 1, chatId)

\* a catch clause that resolves with nothing usable
RunValueNoCatch(id, phase) ==
  IF phase = "threw" THEN NoValue
  ELSE [kind |-> "result", of |-> id]

\* the value runClaude (or the catch clause) hands to resolve for ticket id
RunValue(id, phase) ==
  IF phase = "threw" THEN [kind |-> "error", of |-> id]
  ELSE [kind |-> "result", of |-> id]

\* processNext() up to its first await: guard, processing = true, pick, splice,
\* and the synchronous part of runClaude (Bun.spawn, which may throw)
ProcessNext(proc, q, r, threw) ==
  IF ProcessNextIdle(proc, q)
  THEN /\ processing' = proc
       /\ queue' = q
       /\ run' = r
  ELSE LET idx == PickIndex(q)
           item == q[idx]
       IN /\ processing' = TRUE
          /\ queue' = RemoveAt(q, idx)
          /\ run' = [r EXCEPT ![item.id] = IF threw THEN "threw" ELSE "spawned"]

\* processWithClaude(message, chatId, source): what it does to the queue
ProcessWithClaudeCall(chatId, source) ==
  /\ \E threw \in BOOLEAN :
       ProcessNext(processing, Append(queue, Item(nextId, chatId, source)),
                   run, threw)
  /\ promise' = [promise EXCEPT ![nextId] =
                   [state |-> "pending", value |-> NoValue, resolves |-> 0]]
  /\ meta' = [meta EXCEPT ![nextId] = Item(nextId, chatId, source)]
  /\ nextId' = nextId + 1
  /\ lastOp' = [op |-> "submit", arg |-> 0]
  /\ UNCHANGED flushLog

\* processWithClaude(message, chatId, source), called on its own
ProcessWithClaude(chatId, source) ==
  /\ ProcessWithClaudeCall(chatId, source)
  /\ UNCHANGED <<lifeVars, bridgeVars, loginVars, restVars>>

\* flushChatQueue(chatId): what it does to the queue
FlushChatQueueCall(chatId) ==
  LET r == FlushLoop(queue, Len(queue), chatId)
  IN /\ queue' = r.queue
     /\ promise' = ResolveAll(promise, r.flushed, EmptyString)
     /\ flushLog' = flushLog \cup {r.flushed[i] : i \in 1..Len(r.flushed)}
     /\ meta' = [id \in Tickets |->
                   IF id \in {r.flushed[i] : i \in 1..Len(r.flushed)}
                   THEN NoItem ELSE meta[id]]
     /\ lastOp' = [op |-> "flush", arg |-> chatId]
     /\ UNCHANGED <<processing, run, nextId>>

\* flushChatQueue(chatId), called on its own
FlushChatQueue(chatId) ==
  /\ FlushChatQueueCall(chatId)
  /\ UNCHANGED <<lifeVars, bridgeVars, loginVars, restVars>>

\* the claude subprocess of ticket id exits (or is killed by its timeout):
\* runClaude goes on to read stdout and stderr
ProcExited(id) ==
  /\ run[id] = "spawned"
  /\ \E ok \in BOOLEAN : run' = [run EXCEPT ![id] = IF ok THEN "reading" ELSE "threw"]
  /\ lastOp' = [op |-> "exit", arg |-> 0]
  /\ UNCHANGED <<queue, processing, promise, meta, nextId, flushLog,
                 lifeVars, bridgeVars, loginVars, restVars>>

\* processNext() after its await: resolve(result) or the catch clause, then
\* finally { processing = false; processNext(); }
RunSettled(id) ==
  /\ run[id] \in {"reading", "threw"}
  /\ promise' = Resolve(promise, id, RunValue(id, run[id]))
  /\ \E threw \in BOOLEAN :
       ProcessNext(FALSE, queue, [run EXCEPT ![id] = "done"], threw)
  /\ meta' = [meta EXCEPT ![id] = NoItem]
  /\ lastOp' = [op |-> "settle", arg |-> 0]
  /\ UNCHANGED <<nextId, flushLog, lifeVars, bridgeVars, loginVars, restVars>>

QueueInit ==
  /\ queue = <<>>
  /\ processing = FALSE
  /\ run = [id \in Tickets |-> "none"]
  /\ promise = [id \in Tickets |-> [state |-> "none", value |-> NoValue, resolves |-> 0]]
  /\ meta = [id \in Tickets |-> NoItem]
  /\ nextId = 1
  /\ flushLog = {}
  /\ lastOp = [op |-> "init", arg |-> 0]

\* the callers of processWithClaude: core/index (user) and the scheduler (task)
Submit(limit) ==
  /\ nextId <= limit
  /\ \E c \in Chats, s \in QueueSource : ProcessWithClaude(c, s)

\* processWithClaude called once more after a call that was serviced: the
\* serviced ticket is forgotten and its id stands for the new message
Resubmit(id, chatId, source) ==
  /\ id < nextId
  /\ run[id] = "done"
  /\ \E threw \in BOOLEAN :
       ProcessNext(processing, Append(queue, Item(id, chatId, source)),
                   [run EXCEPT ![id] = "none"], threw)
  /\ promise' = [promise EXCEPT ![id] =
                   [state |-> "pending", value |-> NoValue, resolves |-> 0]]
  /\ meta' = [meta EXCEPT ![id] = Item(id, chatId, source)]
  /\ lastOp' = [op |-> "submit", arg |-> 0]
  /\ UNCHANGED <<nextId, flushLog, lifeVars, bridgeVars, loginVars, restVars>>

QueueNext ==
  \/ Submit(MaxTickets)
  \/ \E c \in Chats : FlushChatQueue(c)
  \/ \E id \in Tickets : ProcExited(id)
  \/ \E id \in Tickets : RunSettled(id)

\* =========================================================================
\* daemon/lifecycle: the Supervisor
\* =========================================================================
Children == 1..MaxSpawns
CoreStates == {"starting", "up", "down"}
CRASH_LOOP_THRESHOLD == 3
RAPID_CRASHES == 2

\* function stopHealthCheck(): clearInterval and healthCheckTimer = null
StopHealthCheck == FALSE

\* if (crashCount > 3) coreState = "down" else coreState = "starting"
StartState(cc) == IF cc > CRASH_LOOP_THRESHOLD THEN "down" ELSE "starting"

\* what the health-check continuation does with a response that is ok
ProbeOkState(cs) == "up"

\* errorDebounce of a closure: null, or a pending 3 s timeout. A pending
\* timeout records how many 2 s restart timers were armed before it: those fire
\* first, since they were armed earlier and run for a shorter time.
NoTimer == 0
Armed(ahead) == ahead + 1
TimersAhead(d) == d - 1

\* a 2 s restart timer fires: one timer fewer is ahead of each pending debounce
TimerPassed(deb) ==
  [c \in DOMAIN deb |-> IF deb[c] > Armed(0) THEN deb[c] - 1 ELSE deb[c]]

\* A spawn's closure (its child, its stream readers, its errorHandled flag and
\* its debounce timeout) is kept in one of MaxSpawns slots. The slot is free
\* again once the child has exited, its stderr has ended and no timeout of the
\* closure is pending: nothing can run in that closure any more.
FreeSlots ==
  {c \in Children : c \notin alive /\ ~streamOpen[c] /\ errorDebounce[c] = NoTimer}
NewChild == CHOOSE c \in FreeSlots : \A d \in FreeSlots : c <= d

\* startedBy records, while a child is alive, what called the startCore that
\* spawned it: "fixed" for the finally clause of a handleError whose
\* attemptAutoFix returned true, "start" for every other caller.
\* startCore(): new state, fresh per-spawn closure (errorHandled, errorDebounce),
\* Bun.spawn, stream watchers, and startHealthCheck() when the state is starting;
\* deb is the state of the debounce timeouts when startCore is called
StartCore(deb, by) ==
  IF ~shouldRun
  THEN /\ errorDebounce' = deb
       /\ UNCHANGED <<coreState, coreProcess, alive, errorHandled,
                      streamOpen, startedBy, healthCheckTimer, errorsRaised>>
  ELSE LET c == NewChild
       IN /\ FreeSlots # {}
          /\ coreState' = StartState(crashCount)
          /\ coreProcess' = c
          /\ alive' = alive \cup {c}
          /\ errorHandled' = [errorHandled EXCEPT ![c] = FALSE]
          /\ errorDebounce' = [deb EXCEPT ![c] = NoTimer]
          /\ streamOpen' = [streamOpen EXCEPT ![c] = TRUE]
          /\ startedBy' = [startedBy EXCEPT ![c] = by]
          /\ errorsRaised' = [errorsRaised EXCEPT ![c] = 0]
          /\ healthCheckTimer' = IF StartState(crashCount) = "starting"
                                 THEN TRUE ELSE healthCheckTimer

\* daemon/index: the startCore() call at start-up
Boot ==
  /\ ~booted
  /\ booted' = TRUE
  /\ StartCore(errorDebounce, "start")
  /\ UNCHANGED <<shouldRun, lastError, crashCount, lastCrash, autofixInProgress,
                 restartTimers, probesSent, probesOk, repairs, queueVars, bridgeVars, loginVars, restVars>>

\* the pipe of an exited child is drained within milliseconds: before any
\* timeout of 2 s or more fires, no stream of an exited child is still open
Drained == \A c \in Children : streamOpen[c] => c \in alive

\* the response of a probe that the Worker has answered reaches the
\* health-check callback within milliseconds: before any timeout of 2 s or
\* more fires, no answered probe is still on its way
Received == probesOk = 0

\* setTimeout(() => startCore(), 2000) fires
RestartTimerFired ==
  /\ restartTimers > 0
  /\ Drained
  /\ Received
  /\ restartTimers' = restartTimers - 1
  /\ StartCore(TimerPassed(errorDebounce), "start")
  /\ UNCHANGED <<shouldRun, lastError, crashCount, lastCrash, autofixInProgress,
                 probesSent, probesOk, repairs, booted, queueVars, bridgeVars, loginVars, restVars>>

\* the setInterval callback of startHealthCheck, up to its await fetch(...)
HealthTick ==
  /\ healthCheckTimer
  /\ IF coreState # "starting"
     THEN /\ healthCheckTimer' = StopHealthCheck
          /\ UNCHANGED probesSent
     ELSE /\ probesSent + probesOk < MaxProbes
          /\ probesSent' = probesSent + 1
          /\ UNCHANGED healthCheckTimer
  /\ UNCHANGED <<coreProcess, alive, shouldRun, coreState, lastError, crashCount,
                 lastCrash, autofixInProgress, errorHandled, errorDebounce,
                 streamOpen, startedBy, restartTimers, probesOk, repairs, errorsRaised, booted,
                 queueVars, bridgeVars, loginVars, restVars>>

\* a live Worker answers GET /health with 200; the response is on its way
WorkerAnswersProbe ==
  /\ probesSent > 0
  /\ alive # {}
  /\ probesSent' = probesSent - 1
  /\ probesOk' = probesOk + 1
  /\ UNCHANGED <<coreProcess, alive, shouldRun, coreState, lastError, crashCount,
                 lastCrash, healthCheckTimer, autofixInProgress, errorHandled,
                 errorDebounce, streamOpen, startedBy, restartTimers, repairs, errorsRaised,
                 booted, queueVars, bridgeVars, loginVars, restVars>>

\* the fetch throws (refused, 2 s timeout) or is not ok: "Still starting"
ProbeFailed ==
  /\ probesSent > 0
  /\ probesSent' = probesSent - 1
  /\ UNCHANGED <<coreProcess, alive, shouldRun, coreState, lastError, crashCount,
                 lastCrash, healthCheckTimer, autofixInProgress, errorHandled,
                 errorDebounce, streamOpen, startedBy, restartTimers, probesOk, repairs, errorsRaised,
                 booted, queueVars, bridgeVars, loginVars, restVars>>

\* the health-check callback resumes after its await with res.ok
ProbeOk ==
  /\ probesOk > 0
  /\ probesOk' = probesOk - 1
  /\ coreState' = ProbeOkState(coreState)
  /\ healthCheckTimer' = IF ProbeOkState(coreState) = "up"
                         THEN StopHealthCheck ELSE healthCheckTimer
  /\ UNCHANGED <<coreProcess, alive, shouldRun, lastError, crashCount, lastCrash,
                 autofixInProgress, errorHandled, errorDebounce, streamOpen, startedBy,
                 restartTimers, probesSent, repairs, errorsRaised, booted,
                 queueVars, bridgeVars, loginVars, restVars>>

\* handleError calls in flight: awaiting attemptAutoFix (fixing), or past it
\* with its result (fixed, failed) and awaiting the result notification
InFlight(r) == r.fixing + r.fixed + r.failed

\* errorsRaised counts, for the closure in each slot, the handleError calls
\* made from it (by its debounce timeout or by its onExit), up to 2
Raised(raised, c) == [raised EXCEPT ![c] = IF @ < 2 THEN @ + 1 ELSE @]

\* a handleError(error) call runs up to its first await
HandleError(r) == [r EXCEPT !.fixing = @ + 1]

\* onErrorDetected() of child c's closure, called by pipeAndWatch on a stderr
\* chunk that matches ERROR_PATTERNS
OnErrorDetected(c) ==
  /\ streamOpen[c]
  /\ ~(errorHandled[c] \/ autofixInProgress \/ ~shouldRun)
  /\ errorHandled' = [errorHandled EXCEPT ![c] = TRUE]
  /\ errorDebounce' = [errorDebounce EXCEPT ![c] = Armed(restartTimers)]
  /\ UNCHANGED <<coreProcess, alive, shouldRun, coreState, lastError, crashCount,
                 lastCrash, healthCheckTimer, autofixInProgress, streamOpen, startedBy,
                 restartTimers, probesSent, probesOk, repairs, errorsRaised, booted,
                 queueVars, bridgeVars, loginVars, restVars>>

\* the 3 s errorDebounce timer of child c fires: lastError is set and
\* handleError(lastError) runs up to its first await
DebounceFired(c) ==
  /\ errorDebounce[c] # NoTimer
  /\ TimersAhead(errorDebounce[c]) = 0
  /\ Drained
  /\ Received
  /\ InFlight(repairs) < MaxRepairs
  /\ errorDebounce' = [errorDebounce EXCEPT ![c] = NoTimer]
  /\ lastError' = TRUE
  /\ autofixInProgress' = TRUE
  /\ repairs' = HandleError(repairs)
  /\ errorsRaised' = Raised(errorsRaised, c)
  /\ UNCHANGED <<coreProcess, alive, shouldRun, coreState, crashCount, lastCrash,
                 healthCheckTimer, errorHandled, streamOpen, startedBy, restartTimers,
                 probesSent, probesOk, booted, queueVars, bridgeVars, loginVars, restVars>>

\* now - lastCrashAt < 10_000
RapidCrash(lc) == lc = "recent"

\* the crash counter update of onExit
NextCrashCount(cc, lc) ==
  IF RapidCrash(lc)
  THEN (IF cc < MaxCrashCount THEN cc + 1 ELSE MaxCrashCount)
  ELSE 1

\* a crash-loop test that does not look at the closure's errorHandled flag
CrashLoopRepairAgain(cc, c) == cc >= RAPID_CRASHES /\ ~autofixInProgress

\* crashCount >= 2 && !autofixInProgress && !errorHandled
CrashLoopRepair(cc, c) == cc >= RAPID_CRASHES /\ ~autofixInProgress /\ ~errorHandled[c]

\* onExit(proc, exitCode, signalCode) of child c
OnExit(c) ==
  /\ c \in alive
  /\ alive' = alive \ {c}
  /\ coreProcess' = 0
  /\ coreState' = "down"
  /\ healthCheckTimer' = StopHealthCheck
  /\ errorDebounce' = [errorDebounce EXCEPT ![c] = NoTimer]
  /\ \E combined \in BOOLEAN : lastError' = (combined \/ lastError)
  /\ crashCount' = NextCrashCount(crashCount, lastCrash)
  /\ lastCrash' = "recent"
  /\ IF ~shouldRun
     THEN UNCHANGED <<errorHandled, autofixInProgress, repairs, errorsRaised, restartTimers>>
     ELSE IF CrashLoopRepair(crashCount', c)
          THEN /\ InFlight(repairs) < MaxRepairs
               /\ errorHandled' = [errorHandled EXCEPT ![c] = TRUE]
               /\ autofixInProgress' = TRUE
               /\ repairs' = HandleError(repairs)
               /\ errorsRaised' = Raised(errorsRaised, c)
               /\ UNCHANGED restartTimers
          ELSE IF ~autofixInProgress
               THEN /\ restartTimers < MaxTimers
                    /\ restartTimers' = restartTimers + 1
                    /\ UNCHANGED <<errorHandled, autofixInProgress, repairs, errorsRaised>>
               ELSE UNCHANGED <<errorHandled, autofixInProgress, repairs, errorsRaised, restartTimers>>
  /\ startedBy' = [startedBy EXCEPT ![c] = "none"]
  /\ UNCHANGED <<shouldRun, streamOpen, probesSent, probesOk, booted,
                 queueVars, bridgeVars, loginVars, restVars>>

\* the stderr stream of an exited child reaches its end (reader.read() done);
\* errorHandled of that closure is never read again
StreamEnd(c) ==
  /\ streamOpen[c]
  /\ c \notin alive
  /\ streamOpen' = [streamOpen EXCEPT ![c] = FALSE]
  /\ errorHandled' = [errorHandled EXCEPT ![c] = FALSE]
  /\ UNCHANGED <<coreProcess, alive, shouldRun, coreState, lastError, crashCount,
                 lastCrash, healthCheckTimer, autofixInProgress, startedBy,
                 errorDebounce, restartTimers, probesSent, probesOk, repairs, errorsRaised,
                 booted, queueVars, bridgeVars, loginVars, restVars>>

\* ten seconds pass since the last exit; every 2 s restart timer was armed at
\* an exit, so none is still pending by then
WindowElapsed ==
  /\ lastCrash = "recent"
  /\ restartTimers = 0
  /\ Drained
  /\ Received
  /\ lastCrash' = "old"
  /\ UNCHANGED <<coreProcess, alive, shouldRun, coreState, lastError, crashCount,
                 healthCheckTimer, autofixInProgress, errorHandled, errorDebounce,
                 streamOpen, startedBy, restartTimers, probesSent, probesOk, repairs, errorsRaised,
                 booted, queueVars, bridgeVars, loginVars, restVars>>

\* attemptAutoFix(error) of one handleError call returns: true when a CLI
\* produced a usable result, false when the attempt was refused, no CLI was
\* available or every CLI failed (also reached when the first notification
\* throws); handleError goes on to its result notification
AttemptAutoFixDone(fixed) ==
  /\ repairs.fixing > 0
  /\ repairs' = [repairs EXCEPT !.fixing = @ - 1,
                                ![IF fixed THEN "fixed" ELSE "failed"] = @ + 1]
  /\ UNCHANGED <<errorsRaised, coreProcess, alive, shouldRun, coreState, lastError, crashCount,
                 lastCrash, healthCheckTimer, autofixInProgress, errorHandled,
                 errorDebounce, streamOpen, startedBy, restartTimers, probesSent,
                 probesOk, booted, queueVars, bridgeVars, loginVars, restVars>>

\* a handleError without the restart of its finally clause
RestartAfterRepairNever(fixed) == FALSE

\* a handleError that restarts the Worker only when the repair failed
RestartAfterRepairFailed(fixed) == ~fixed /\ shouldRun /\ coreProcess = 0

\* if (shouldRun && coreProcess === null) in the finally clause of handleError
RestartAfterRepair(fixed) == shouldRun /\ coreProcess = 0

\* handleError after its last await: the finally clause, autofixInProgress =
\* false and the restart when no child is attached
HandleErrorDone(fixed) ==
  /\ repairs[IF fixed THEN "fixed" ELSE "failed"] > 0
  /\ repairs' = [repairs EXCEPT ![IF fixed THEN "fixed" ELSE "failed"] = @ - 1]
  /\ autofixInProgress' = FALSE
  /\ IF RestartAfterRepair(fixed)
     THEN StartCore(errorDebounce, IF fixed THEN "fixed" ELSE "start")
     ELSE UNCHANGED <<coreState, coreProcess, alive, errorHandled, errorDebounce,
                      streamOpen, startedBy, healthCheckTimer, errorsRaised>>
  /\ UNCHANGED <<shouldRun, lastError, crashCount, lastCrash, restartTimers,
                 probesSent, probesOk, booted, queueVars, bridgeVars, loginVars, restVars>>

\* stopCore()
StopCore ==
  /\ booted
  /\ shouldRun
  /\ shouldRun' = FALSE
  /\ healthCheckTimer' = StopHealthCheck
  /\ coreProcess' = 0
  /\ coreState' = "down"
  /\ UNCHANGED <<alive, lastError, crashCount, lastCrash, autofixInProgress,
                 errorHandled, errorDebounce, streamOpen, startedBy, restartTimers,
                 probesSent, probesOk, repairs, errorsRaised, booted, queueVars, bridgeVars, loginVars, restVars>>

LifeInit ==
  /\ coreProcess = 0
  /\ alive = {}
  /\ shouldRun = TRUE
  /\ coreState = "down"
  /\ lastError = FALSE
  /\ crashCount = 0
  /\ lastCrash = "never"
  /\ healthCheckTimer = FALSE
  /\ autofixInProgress = FALSE
  /\ errorHandled = [c \in Children |-> FALSE]
  /\ errorDebounce = [c \in Children |-> NoTimer]
  /\ streamOpen = [c \in Children |-> FALSE]
  /\ startedBy = [c \in Children |-> "none"]
  /\ restartTimers = 0
  /\ probesSent = 0
  /\ probesOk = 0
  /\ repairs = [fixing |-> 0, fixed |-> 0, failed |-> 0]
  /\ errorsRaised = [c \in Children |-> 0]
  /\ booted = FALSE

LifeNext ==
  \/ Boot
  \/ RestartTimerFired
  \/ HealthTick
  \/ WorkerAnswersProbe
  \/ ProbeFailed
  \/ ProbeOk
  \/ \E c \in Children : OnErrorDetected(c)
  \/ \E c \in Children : DebounceFired(c)
  \/ \E c \in Children : OnExit(c)
  \/ \E c \in Children : StreamEnd(c)
  \/ WindowElapsed
  \/ \E fixed \in BOOLEAN : AttemptAutoFixDone(fixed)
  \/ \E fixed \in BOOLEAN : HandleErrorDone(fixed)
  \/ StopCore


\* =========================================================================
\* daemon/bridge and daemon/fallback: the Bridge
\* =========================================================================
Msgs == 1..MaxMsgs
FallbackOutcomes == {"answer", "failed", "threw"}
Settled == {"done", "rejected"}

\* a sendToCore call: where it stands (pc), the health it was routed on
\* (route), and how many postToCore calls (posts, counted up to MaxPostCount)
\* and onStatus calls (notes) the handler it is in (handleStarting, handleUp,
\* runFallback) has made
IdleMsg == [pc |-> "idle", polls |-> 0, prev |-> 0, statusFailed |-> FALSE,
            text |-> "none", route |-> "none", posts |-> 0, notes |-> 0]

\* the call returns or throws: its locals are gone, what is left is how it
\* settled
Return(r, pc, text, byStatus) ==
  [IdleMsg EXCEPT !.pc = pc, !.text = text, !.statusFailed = byStatus]

PostPcs == {"st_post1", "st_post2", "up_post1", "up_post2"}
StatusPcs == {"st_status", "up_status", "fb_status"}

\* the call moves on to pc: a postToCore or onStatus call made there is
\* counted; "fb_status" is the start of runFallback, with counts of its own
Enter(r, pc) ==
  IF pc = "fb_status"
  THEN [r EXCEPT !.pc = pc, !.posts = 0, !.notes = 1]
  ELSE [r EXCEPT !.pc = pc,
                 !.posts = IF pc \in PostPcs /\ @ < MaxPostCount THEN @ + 1 ELSE @,
                 !.notes = IF pc \in StatusPcs THEN @ + 1 ELSE @]

\* a fallbackClaude without its try/catch: a throwing CLI call rejects
FallbackClaudeUncaught(outcome) ==
  IF outcome = "threw" THEN [pc |-> "rejected", text |-> "none"]
  ELSE IF outcome = "answer" THEN [pc |-> "done", text |-> "output"]
  ELSE [pc |-> "done", text |-> "fallback " \o outcome]

\* fallbackClaude(text, coreError): the string it returns for each outcome of
\* runWithCliFallback; the catch clause turns a throw into a string as well
FallbackClaude(outcome) ==
  IF outcome = "answer" THEN [pc |-> "done", text |-> "output"]
  ELSE IF outcome = "threw" THEN [pc |-> "done", text |-> "fallback unreachable"]
  ELSE [pc |-> "done", text |-> "fallback " \o outcome]

\* a handler that answers a failed retry with another retry
PostFailedRetry(pc) ==
  CASE pc = "st_post1" -> "st_sleep"
    [] pc = "st_post2" -> "st_sleep"
    [] pc = "up_post1" -> "up_status"
    [] pc = "up_post2" -> "up_sleep"

\* a handleUp that gives up after the first failed postToCore
PostFailedNoRetry(pc) ==
  CASE pc = "st_post1" -> "st_sleep"
    [] pc = "st_post2" -> "fb_status"
    [] pc = "up_post1" -> "fb_status"
    [] pc = "up_post2" -> "fb_status"

\* where handleStarting / handleUp go after a postToCore that threw
PostFailed(pc) ==
  CASE pc = "st_post1" -> "st_sleep"
    [] pc = "st_post2" -> "fb_status"
    [] pc = "up_post1" -> "up_status"
    [] pc = "up_post2" -> "fb_status"

\* Date.now() - start > timeoutMs, seen at the polls of the 500 ms interval
Elapsed(polls) == polls >= WaitPolls

\* a handleStarting that tries the Worker once the wait has timed out
AfterWaitPostsLate(cs, polls) ==
  IF cs = "up" \/ (cs # "down" /\ Elapsed(polls)) THEN "st_post1"
  ELSE IF cs = "down" THEN "fb_status"
  ELSE "st_wait"

\* where handleStarting goes with the health it sees when waitForCoreReady
\* is called or polls: POST when up, fallback when down or timed out
AfterWait(cs, polls) ==
  IF cs = "up" THEN "st_post1"
  ELSE IF cs = "down" \/ Elapsed(polls) THEN "fb_status"
  ELSE "st_wait"

\* a runFallback that does not store the new tail
NextTailStale(tail, m) == tail

\* fallbackQueue = result.catch(() => ""): the new tail is m's promise
NextTail(tail, m) == m

\* a then-callback that does not wait for the tail it was chained onto
TailFulfilledAlways(t) == TRUE

\* the promise fallbackQueue refers to is fulfilled: the initial
\* Promise.resolve(""), or result.catch(...) of a settled result
TailFulfilled(t) == IF t = 0 THEN TRUE ELSE msgs[t].pc \in Settled

\* the Supervisor writes coreState (startCore, the health check, onExit,
\* stopCore) while messages are being routed
CoreStateWritten(s) ==
  /\ s # coreState
  /\ coreState' = s
  /\ UNCHANGED <<coreProcess, alive, shouldRun, lastError, crashCount, lastCrash,
                 healthCheckTimer, autofixInProgress, errorHandled, errorDebounce,
                 streamOpen, startedBy, restartTimers, probesSent, probesOk, repairs, errorsRaised,
                 booted, queueVars, bridgeVars, loginVars, restVars>>

\* a sendToCore that treats a Worker that is down like one that is up
RouteDownPosts(state) ==
  CASE state = "starting" -> "st_status"
    [] OTHER -> "up_post1"

\* the handler sendToCore picks for getCoreState(), up to its first await:
\* handleStarting (onStatus), handleUp (postToCore), runFallback (onStatus)
Route(state) ==
  CASE state = "starting" -> "st_status"
    [] state = "up" -> "up_post1"
    [] OTHER -> "fb_status"

\* sendToCore(message, onStatus) up to the first await of its handler
SendToCore(m) ==
  /\ m = arrived + 1
  /\ msgs[m].pc = "idle"
  /\ arrived' = m
  /\ msgs' = [msgs EXCEPT ![m] =
                Enter([@ EXCEPT !.route = coreState], Route(coreState))]
  /\ UNCHANGED <<fallbackQueue, fbRunning, chained, fbOrder, lifeVars, queueVars, loginVars, restVars>>

\* an awaited onStatus(...) settles; handleStarting then calls waitForCoreReady,
\* handleUp sleeps, runFallback chains the call onto fallbackQueue
StatusSettled(m) ==
  /\ msgs[m].pc \in {"st_status", "up_status", "fb_status"}
  /\ \E ok \in BOOLEAN :
       IF ~ok
       THEN /\ msgs' = [msgs EXCEPT ![m] = Return(@, "rejected", "none", TRUE)]
            /\ UNCHANGED <<fallbackQueue, chained>>
       ELSE CASE msgs[m].pc = "st_status" ->
                   /\ msgs' = [msgs EXCEPT ![m] = Enter(@, AfterWait(coreState, 0))]
                   /\ UNCHANGED <<fallbackQueue, chained>>
              [] msgs[m].pc = "up_status" ->
                   /\ msgs' = [msgs EXCEPT ![m].pc = "up_sleep"]
                   /\ UNCHANGED <<fallbackQueue, chained>>
              [] msgs[m].pc = "fb_status" ->
                   /\ msgs' = [msgs EXCEPT ![m].pc = "fb_chained",
                                           ![m].prev = fallbackQueue]
                   /\ fallbackQueue' = NextTail(fallbackQueue, m)
                   /\ chained' = Append(chained, m)
  /\ UNCHANGED <<fbRunning, arrived, fbOrder, lifeVars, queueVars, loginVars, restVars>>

\* the 500 ms interval of waitForCoreReady fires
WaitPoll(m) ==
  /\ msgs[m].pc = "st_wait"
  /\ msgs' = [msgs EXCEPT ![m] =
                [Enter(@, AfterWait(coreState, @.polls + 1))
                   EXCEPT !.polls = IF AfterWait(coreState, @ + 1) = "st_wait"
                                    THEN @ + 1 ELSE 0]]
  /\ UNCHANGED <<fallbackQueue, fbRunning, arrived, chained, fbOrder,
                 lifeVars, queueVars, loginVars, restVars>>

\* postToCore settles: a CoreResponse, or a throw (refused, timeout, non-2xx)
PostSettled(m) ==
  /\ msgs[m].pc \in {"st_post1", "st_post2", "up_post1", "up_post2"}
  /\ \E ok \in BOOLEAN :
       msgs' = IF ok
               THEN [msgs EXCEPT ![m] = Return(@, "done", "core", FALSE)]
               ELSE [msgs EXCEPT ![m] = Enter(@, PostFailed(@.pc))]
  /\ UNCHANGED <<fallbackQueue, fbRunning, arrived, chained, fbOrder,
                 lifeVars, queueVars, loginVars, restVars>>

\* await sleep(RETRY_DELAY) is over: the second postToCore
SleepDone(m) ==
  /\ msgs[m].pc \in {"st_sleep", "up_sleep"}
  /\ msgs' = [msgs EXCEPT ![m] =
                Enter(@, IF @.pc = "st_sleep" THEN "st_post2" ELSE "up_post2")]
  /\ UNCHANGED <<fallbackQueue, fbRunning, arrived, chained, fbOrder,
                 lifeVars, queueVars, loginVars, restVars>>

\* the then-callback of runFallback runs: fallbackClaude(text, coreError) starts
FallbackStart(m) ==
  /\ msgs[m].pc = "fb_chained"
  /\ TailFulfilled(msgs[m].prev)
  /\ msgs' = [msgs EXCEPT ![m].pc = "fb_running", ![m].prev = 0]
  /\ fbRunning' = fbRunning \cup {m}
  /\ fbOrder' = Append(fbOrder, m)
  /\ UNCHANGED <<fallbackQueue, arrived, chained, lifeVars, queueVars, loginVars, restVars>>

\* fallbackClaude settles and runFallback returns { text: response }
FallbackSettled(m) ==
  /\ msgs[m].pc = "fb_running"
  /\ \E outcome \in FallbackOutcomes :
       msgs' = [msgs EXCEPT ![m] = Return(@, FallbackClaude(outcome).pc,
                                             FallbackClaude(outcome).text, FALSE)]
  /\ fbRunning' = fbRunning \ {m}
  /\ UNCHANGED <<fallbackQueue, arrived, chained, fbOrder, lifeVars, queueVars, loginVars, restVars>>

BridgeInit ==
  /\ msgs = [m \in Msgs |-> IdleMsg]
  /\ fallbackQueue = 0
  /\ fbRunning = {}
  /\ arrived = 0
  /\ chained = <<>>
  /\ fbOrder = <<>>

\* =========================================================================
\* daemon/agent-cli, daemon/fallback: the Fallback Invoker
\* =========================================================================
AgentCli == {"claude", "codex"}

\* getAvailableAgentCli: claude before codex, each only if installed
GetAvailableAgentCli(installed) ==
  (IF "claude" \in installed THEN <<"claude">> ELSE <<>>) \o
  (IF "codex" \in installed THEN <<"codex">> ELSE <<>>)

\* what a CLI printed on stdout: nothing, white space only, an answer, or a
\* raw CLI error (authentication, permission, rate limit, overload)
RawOutputs == {"empty", "blank", "answer", "error"}

\* result.output.trim()
TrimOutputNone(out) == out
TrimOutput(out) == IF out = "blank" THEN "empty" ELSE out

\* looksLikeCliError
LooksLikeCliError(out) == out = "error"

\* how a runSingleCli call settles: Bun.spawn throws, or the process exits
\* (killed by the timeout included) with its code and output
Threw == [threw |-> TRUE, exitCode |-> 1, output |-> "empty"]
CliRuns == {Threw} \cup [threw : {FALSE}, exitCode : {0, 1}, output : RawOutputs]

\* CliExecutionResult | null
CliResult(cli, output, code, part) ==
  [cli |-> cli, output |-> output, exitCode |-> code, partial |-> part]
NoResult == CliResult("none", "empty", 0, FALSE)

\* the strings fallbackClaude returns
Reply(kind, cli, output) ==
  [kind |-> kind, cli |-> cli, output |-> output,
   labelled |-> kind # "output",
   unavailable |-> kind \in {"no cli", "both failed", "unreachable"}]
NoReply == Reply("none", "none", "empty")

\* fallbackClaude after runWithCliFallback has fulfilled; checked is whether
\* this copy of daemon/fallback tests a partial result with looksLikeCliError
FallbackReply(result, tried, checked) ==
  IF result = NoResult
  THEN IF tried = <<>>
       THEN Reply("no cli", "none", "empty")
       ELSE Reply("both failed", "none", "empty")
  ELSE IF result.partial /\ checked /\ LooksLikeCliError(result.output)
  THEN Reply("cli failed", result.cli, "empty")
  ELSE IF result.output # "empty"
  THEN Reply("output", result.cli, result.output)
  ELSE Reply("empty response", result.cli, "empty")

CliIdle ==
  /\ fbPc = "idle"
  /\ candidates = <<>>
  /\ attempted = <<>>
  /\ failures = 0
  /\ partial = NoResult
  /\ cliProc = "none"
  /\ runLog = <<>>
  /\ reply = NoReply

\* the copy of daemon/fallback without looksLikeCliError is the one in use
CliInit == CliIdle /\ cliErrorCheck = FALSE

\* fallbackClaude is called: runWithCliFallback as far as its first await
FallbackCalled(installed, detected) ==
  /\ fbPc \in {"idle", "done"}
  /\ candidates' = IF detected THEN GetAvailableAgentCli(installed) ELSE <<>>
  /\ failures' = 0
  /\ partial' = NoResult
  /\ runLog' = <<>>
  /\ IF ~detected
     THEN /\ reply' = Reply("unreachable", "none", "empty")
          /\ fbPc' = "done"
          /\ attempted' = <<>>
          /\ cliProc' = "none"
     ELSE IF candidates' = <<>>
     THEN /\ reply' = FallbackReply(NoResult, <<>>, cliErrorCheck)
          /\ fbPc' = "done"
          /\ attempted' = <<>>
          /\ cliProc' = "none"
     ELSE /\ reply' = NoReply
          /\ fbPc' = "running"
          /\ attempted' = <<candidates'[1]>>
          /\ cliProc' = candidates'[1]
  /\ UNCHANGED <<cliErrorCheck, queueVars, lifeVars, bridgeVars, loginVars, fixVars, laterVars>>

\* the body of the for loop after runSingleCli settled, up to the next
\* runSingleCli or to the return of fallbackClaude
CliSettled(ran) ==
  /\ fbPc = "running"
  /\ LET output == TrimOutput(ran.output)
         kept == IF /\ ~ran.threw
                    /\ ran.exitCode # 0
                    /\ output # "empty"
                    /\ partial = NoResult
                 THEN CliResult(cliProc, output, ran.exitCode, TRUE)
                 ELSE partial
     IN /\ runLog' = Append(runLog, [cli |-> cliProc, ran |-> ran])
        /\ IF ~ran.threw /\ ran.exitCode = 0 /\ output # "empty"
           THEN /\ reply' = FallbackReply(CliResult(cliProc, output, 0, FALSE),
                                          attempted, cliErrorCheck)
                /\ fbPc' = "done"
                /\ cliProc' = "none"
                /\ UNCHANGED <<attempted, failures, partial>>
           ELSE /\ partial' = kept
                /\ failures' = failures + 1
                /\ IF Len(attempted) < Len(candidates)
                   THEN /\ attempted' = Append(attempted, candidates[Len(attempted) + 1])
                        /\ cliProc' = candidates[Len(attempted) + 1]
                        /\ UNCHANGED <<fbPc, reply>>
                   ELSE /\ reply' = FallbackReply(kept, attempted, cliErrorCheck)
                        /\ fbPc' = "done"
                        /\ cliProc' = "none"
                        /\ UNCHANGED attempted
  /\ UNCHANGED <<candidates, cliErrorCheck, queueVars, lifeVars, bridgeVars, loginVars, fixVars, laterVars>>

CliNext ==
  \/ \E installed \in SUBSET AgentCli, detected \in BOOLEAN :
       FallbackCalled(installed, detected)
  \/ \E ran \in CliRuns : CliSettled(ran)

\* =========================================================================
\* daemon/autofix: Auto-Repair
\* =========================================================================
COOLDOWN_MS == 120000
MAX_ATTEMPTS == 3

\* the step of the clock that Date.now() is read from
TickMs == 60000

\* now - lastAttemptAt, kept up to the first value past the cooldown
ClockValues == {n * TickMs : n \in 0..((COOLDOWN_MS \div TickMs) + 1)}

\* how the runWithCliFallback call of an attempt ends
AutoFixOutcomes == {"no cli", "all failed", "result", "threw"}

\* if (now - lastAttemptAt > COOLDOWN_MS)
CooldownOverFrom(elapsed) == elapsed >= COOLDOWN_MS
CooldownOver(elapsed) == elapsed > COOLDOWN_MS

\* if (attemptCount >= MAX_ATTEMPTS) return false
Refused(count) == count >= MAX_ATTEMPTS

\* what the last attemptAutoFix step did, and what it returned if it returned
FixLog(op, value) == [op |-> op, value |-> value]
NoFixLog == FixLog("none", FALSE)

\* lastAttemptAt = 0 lies further back than the cooldown
FixInit ==
  /\ attemptCount = 0
  /\ sinceAttempt = COOLDOWN_MS + TickMs
  /\ fixFrames = [notify |-> 0, cli |-> 0]
  /\ fixLog = NoFixLog

\* attemptAutoFix is called: the rate limit, as far as the first await
AttemptAutoFix ==
  /\ fixFrames.notify + fixFrames.cli < MaxFixRuns
  /\ LET count == IF CooldownOver(sinceAttempt) THEN 0 ELSE attemptCount
     IN IF Refused(count)
        THEN /\ attemptCount' = count
             /\ fixLog' = FixLog("refused", FALSE)
             /\ UNCHANGED <<sinceAttempt, fixFrames>>
        ELSE /\ attemptCount' = count + 1
             /\ sinceAttempt' = 0
             /\ fixFrames' = [fixFrames EXCEPT !.notify = @ + 1]
             /\ fixLog' = FixLog("accepted", FALSE)
  /\ UNCHANGED <<queueVars, lifeVars, bridgeVars, loginVars, cliVars, laterVars>>

\* the notifyFn call before the try block settles: runWithCliFallback is
\* called, or attemptAutoFix rejects
FixNotified(sent) ==
  /\ fixFrames.notify > 0
  /\ IF sent
     THEN /\ fixFrames' = [fixFrames EXCEPT !.notify = @ - 1, !.cli = @ + 1]
          /\ fixLog' = FixLog("cli called", FALSE)
     ELSE /\ fixFrames' = [fixFrames EXCEPT !.notify = @ - 1]
          /\ fixLog' = FixLog("rejected", FALSE)
  /\ UNCHANGED <<attemptCount, sinceAttempt,
                 queueVars, lifeVars, bridgeVars, loginVars, cliVars, laterVars>>

\* runWithCliFallback settles and attemptAutoFix returns
FixReturned(outcome) ==
  /\ fixFrames.cli > 0
  /\ fixFrames' = [fixFrames EXCEPT !.cli = @ - 1]
  /\ fixLog' = FixLog("returned", outcome = "result")
  /\ UNCHANGED <<attemptCount, sinceAttempt,
                 queueVars, lifeVars, bridgeVars, loginVars, cliVars, laterVars>>

\* time passes
FixTick ==
  /\ sinceAttempt + TickMs \in ClockValues
  /\ sinceAttempt' = sinceAttempt + TickMs
  /\ fixLog' = NoFixLog
  /\ UNCHANGED <<attemptCount, fixFrames,
                 queueVars, lifeVars, bridgeVars, loginVars, cliVars, laterVars>>

FixNext ==
  \/ AttemptAutoFix
  \/ \E sent \in BOOLEAN : FixNotified(sent)
  \/ \E outcome \in AutoFixOutcomes : FixReturned(outcome)
  \/ FixTick

\* =========================================================================
\* core/index, core/intent: the Worker's /message handler
\* =========================================================================
Reqs == 1..MaxReqs
NoCli == "none"

\* a /message request: where it stands (pc), its conversation, the CLIs
\* detectScheduleIntent has still to try, the ticket of its processWithClaude
\* call, and why its Codex run was started (stage)
IdleReq == [pc |-> "idle", chatId |-> 0, clis |-> <<>>, ticket |-> 0,
            stage |-> "none"]

\* the handler returns Response.json({ text }): its locals are gone and the
\* server is free to take another request in its place
Answered(c, text) == IdleReq

\* getCliOrder()
GetCliOrder(verified, installed) ==
  IF verified # NoCli THEN <<verified>>
  ELSE (IF "claude" \in installed THEN <<"claude">> ELSE <<>>)
         \o (IF "codex" \in installed THEN <<"codex">> ELSE <<>>)

PreferInstalled(candidate, installed) ==
  IF candidate = "claude" /\ "claude" \notin installed /\ "codex" \in installed
  THEN "codex"
  ELSE IF candidate = "codex" /\ "codex" \notin installed /\ "claude" \in installed
  THEN "claude"
  ELSE candidate

DefaultBackend(installed) == IF "claude" \in installed THEN "claude" ELSE "codex"

\* getBackend(chatId); "unset" is a conversation with no entry in backendState
GetBackend(chatId) ==
  PreferInstalled(IF backendState[chatId] # "unset" THEN backendState[chatId]
                  ELSE DefaultBackend(deps), deps)

\* const canFallback = backend === "codex" ? deps.claude : deps.codex
CanFallback(backend) == (IF backend = "codex" THEN "claude" ELSE "codex") \in deps

\* requests that may still call processWithClaude
MayEnqueue ==
  {r \in Reqs : reqs[r].pc = "intent"
                \/ (reqs[r].pc = "codex" /\ reqs[r].stage = "primary")}

\* a ticket is left for every request that may need one, and one more
TicketLeft == nextId + Cardinality(MayEnqueue) <= MaxWorkTickets

\* a processWithCodex(messageText) call up to its await of proc.exited
CodexStarted(c, stage) ==
  [IdleReq EXCEPT !.pc = "codex", !.chatId = c, !.stage = stage]

\* the handler from checkDeps() on, up to its first await: the no-CLI notice,
\* processWithCodex or processWithClaude for the backend of the conversation
RouteBackend(r, c) ==
  IF deps = {}
  THEN /\ reqs' = [reqs EXCEPT ![r] = Answered(c, "no cli")]
       /\ UNCHANGED queueVars
  ELSE IF GetBackend(c) = "codex"
  THEN /\ reqs' = [reqs EXCEPT ![r] = CodexStarted(c, "primary")]
       /\ UNCHANGED queueVars
  ELSE /\ ProcessWithClaudeCall(c, "user")
       /\ reqs' = [reqs EXCEPT ![r] =
                     [IdleReq EXCEPT !.pc = "claude", !.chatId = c,
                                     !.stage = "primary", !.ticket = nextId]]

\* POST /message with a text and no command, up to the first await of
\* detectScheduleIntent: trySpawn of the first CLI, or the routing when no
\* CLI is installed
HandleMessage(r, c) ==
  /\ reqs[r].pc = "idle"
  /\ TicketLeft
  /\ IF GetCliOrder(verifiedCli, deps) = <<>>
     THEN RouteBackend(r, c)
     ELSE /\ reqs' = [reqs EXCEPT ![r] =
                        [IdleReq EXCEPT !.pc = "intent", !.chatId = c,
                                        !.clis = GetCliOrder(verifiedCli, deps)]]
          /\ UNCHANGED queueVars
  /\ UNCHANGED <<backendState, deps, verifiedCli, gwVars, schedVars,
                 lifeVars, bridgeVars, loginVars, cliVars, fixVars>>

\* how a trySpawn ends: a non-zero exit (null), a throw, an output that
\* JSON.parse rejects, no intent, a task to schedule, a cancellation
IntentOutcomes == {"failed", "threw", "unparsable", "none", "schedule", "cancel"}

\* the subprocess of trySpawn exits and detectScheduleIntent goes on: the next
\* CLI, or the handler with the intent found
IntentSettled(r, outcome) ==
  /\ reqs[r].pc = "intent"
  /\ verifiedCli' = IF outcome \in {"failed", "threw"} THEN verifiedCli
                    ELSE Head(reqs[r].clis)
  /\ IF outcome \in {"failed", "threw", "unparsable"} /\ Tail(reqs[r].clis) # <<>>
     THEN /\ reqs' = [reqs EXCEPT ![r].clis = Tail(@)]
          /\ UNCHANGED queueVars
     ELSE IF outcome = "schedule"
     THEN /\ reqs' = [reqs EXCEPT ![r] = Answered(@.chatId, "confirmation")]
          /\ UNCHANGED queueVars
     ELSE IF outcome = "cancel"
     THEN /\ reqs' = [reqs EXCEPT ![r] = Answered(@.chatId, "confirmation")]
          /\ FlushChatQueueCall(reqs[r].chatId)
     ELSE RouteBackend(r, reqs[r].chatId)
  /\ UNCHANGED <<backendState, deps, gwVars, schedVars,
                 lifeVars, bridgeVars, loginVars, cliVars, fixVars>>

\* what the handler sees in the string processWithClaude resolved with
ClaudeAnswers == {"answer", "error", "rate limit"}

\* await processWithClaude(...) is over
ClaudeAnswered(r, answer) ==
  /\ reqs[r].pc = "claude"
  /\ promise[reqs[r].ticket].state = "fulfilled"
  /\ promise[reqs[r].ticket].value.kind = "error" => answer = "error"
  /\ reqs' = [reqs EXCEPT ![r] =
                IF @.stage = "primary" /\ answer = "error" /\ CanFallback("claude")
                THEN CodexStarted(@.chatId, "fallback")
                ELSE IF @.stage = "primary" /\ answer = "rate limit"
                        /\ CanFallback("claude")
                THEN CodexStarted(@.chatId, "credits")
                ELSE Answered(@.chatId, answer)]
  /\ UNCHANGED <<backendState, deps, verifiedCli, gwVars, schedVars, queueVars,
                 lifeVars, bridgeVars, loginVars, cliVars, fixVars>>

\* what the handler sees in the string processWithCodex returned
CodexAnswers == {"answer", "error", "auth required"}

\* the codex subprocess exits and await processWithCodex(...) is over
CodexAnswered(r, answer) ==
  /\ reqs[r].pc = "codex"
  /\ IF reqs[r].stage = "primary" /\ answer = "error" /\ CanFallback("codex")
     THEN /\ ProcessWithClaudeCall(reqs[r].chatId, "user")
          /\ reqs' = [reqs EXCEPT ![r] =
                        [IdleReq EXCEPT !.pc = "claude", !.chatId = reqs[r].chatId,
                                        !.stage = "fallback", !.ticket = nextId]]
          /\ UNCHANGED backendState
     ELSE /\ reqs' = [reqs EXCEPT ![r] = Answered(@.chatId, answer)]
          /\ backendState' =
               IF reqs[r].stage = "credits" /\ answer # "auth required"
               THEN [backendState EXCEPT ![reqs[r].chatId] = "codex"]
               ELSE backendState
          /\ UNCHANGED queueVars
  /\ UNCHANGED <<deps, verifiedCli, gwVars, schedVars,
                 lifeVars, bridgeVars, loginVars, cliVars, fixVars>>

\* POST /message with the command /codex or /claude
BackendCommand(c, b) ==
  /\ b \in deps
  /\ backendState[c] # b
  /\ backendState' = [backendState EXCEPT ![c] = b]
  /\ UNCHANGED <<reqs, deps, verifiedCli, gwVars, schedVars, queueVars,
                 lifeVars, bridgeVars, loginVars, cliVars, fixVars>>

\* core/scheduler: a due task calls processWithClaude(message, chatId, "task")
TaskDue(c) ==
  /\ TicketLeft
  /\ ProcessWithClaude(c, "task")

WorkInit ==
  /\ reqs = [r \in Reqs |-> IdleReq]
  /\ backendState = [c \in Chats |-> "unset"]
  /\ deps = AgentCli
  /\ verifiedCli = NoCli

WorkNext ==
  \/ \E r \in Reqs, c \in Chats : HandleMessage(r, c)
  \/ \E r \in Reqs, outcome \in IntentOutcomes : IntentSettled(r, outcome)
  \/ \E r \in Reqs, answer \in ClaudeAnswers : ClaudeAnswered(r, answer)
  \/ \E r \in Reqs, answer \in CodexAnswers : CodexAnswered(r, answer)
  \/ \E c \in Chats, b \in AgentCli : BackendCommand(c, b)
  \/ \E c \in Chats : TaskDue(c)
  \/ \E id \in Tickets : ProcExited(id)
  \/ \E id \in Tickets : RunSettled(id)

\* =========================================================================
\* daemon/index: the Gateway's message handler
\* =========================================================================
\* what the handler finds in the CoreResponse: a text, an audio with no text
\* (/speak, a [VOICE] answer), or neither
Bodies == {"text", "audio", "empty"}
Parts == 1..MaxParts

\* the handler of one inbound message: awaiting sendToCore ("waiting"),
\* awaiting telegram.sendAudio ("audio"), telegram.send of a chunk ("sending",
\* with the chunks left) or of the error notice of its catch clause
\* ("notice"), or returned ("done"); failed: a call to the channel threw
IdleHandler == [pc |-> "waiting", left |-> 0, failed |-> FALSE]

\* a message handed to the channel for the conversation of m, in the order
\* of the calls; state: the call is pending, or it resolved ("sent") or threw
\* ("failed")
Delivery(m, kind) == [m |-> m, kind |-> kind, state |-> "pending"]

\* the pending call of the handler of m settles
Settle(sends, m, ok) ==
  [i \in DOMAIN sends |->
     IF sends[i].m = m /\ sends[i].state = "pending"
     THEN [sends[i] EXCEPT !.state = IF ok THEN "sent" ELSE "failed"]
     ELSE sends[i]]

\* the bodies a settled sendToCore can carry: the fallback strings are never
\* empty, a Worker response can be
BodiesOf(r) == IF r.text = "core" THEN Bodies ELSE {"text"}

\* await sendToCore(...) is over: the response is split and telegram.sendAudio
\* or telegram.send is called with its first part, or the catch clause calls
\* telegram.send with its notice; an empty response is only logged
ResponseReceived(m, body, parts) ==
  /\ handlers[m].pc = "waiting"
  /\ msgs[m].pc \in Settled
  /\ body \in BodiesOf(msgs[m])
  /\ IF msgs[m].pc = "rejected"
     THEN /\ handlers' = [handlers EXCEPT ![m].pc = "notice"]
          /\ delivered' = Append(delivered, Delivery(m, "error"))
     ELSE IF body = "audio"
     THEN /\ handlers' = [handlers EXCEPT ![m].pc = "audio"]
          /\ delivered' = Append(delivered, Delivery(m, "audio"))
     ELSE IF body = "text"
     THEN /\ handlers' = [handlers EXCEPT ![m].pc = "sending", ![m].left = parts]
          /\ delivered' = Append(delivered, Delivery(m, "response"))
     ELSE /\ handlers' = [handlers EXCEPT ![m].pc = "done"]
          /\ UNCHANGED delivered
  /\ UNCHANGED <<chatOf, workVars, schedVars, bridgeVars, queueVars, lifeVars,
                 loginVars, cliVars, fixVars>>

\* telegram.sendAudio or telegram.send of a chunk settles: a failed audio is
\* logged, a failed chunk takes the handler to its catch clause, a sent chunk
\* to the next one
SendSettled(m, ok) ==
  /\ handlers[m].pc \in {"audio", "sending"}
  /\ IF ~ok /\ handlers[m].pc = "audio"
     THEN /\ handlers' = [handlers EXCEPT ![m].pc = "done", ![m].failed = TRUE]
          /\ delivered' = Settle(delivered, m, ok)
     ELSE IF ~ok
     THEN /\ handlers' = [handlers EXCEPT ![m].pc = "notice", ![m].left = 0,
                                          ![m].failed = TRUE]
          /\ delivered' = Append(Settle(delivered, m, ok), Delivery(m, "error"))
     ELSE IF handlers[m].pc = "sending" /\ handlers[m].left > 1
     THEN /\ handlers' = [handlers EXCEPT ![m].left = @ - 1]
          /\ delivered' = Append(Settle(delivered, m, ok), Delivery(m, "response"))
     ELSE /\ handlers' = [handlers EXCEPT ![m].pc = "done", ![m].left = 0]
          /\ delivered' = Settle(delivered, m, ok)
  /\ UNCHANGED <<chatOf, workVars, schedVars, bridgeVars, queueVars, lifeVars,
                 loginVars, cliVars, fixVars>>

\* telegram.send of the "Error: ..." notice settles
NoticeSettled(m, ok) ==
  /\ handlers[m].pc = "notice"
  /\ delivered' = Settle(delivered, m, ok)
  /\ handlers' = [handlers EXCEPT ![m].pc = "done", ![m].failed = @ \/ ~ok]
  /\ UNCHANGED <<chatOf, workVars, schedVars, bridgeVars, queueVars, lifeVars,
                 loginVars, cliVars, fixVars>>

\* the onStatus callback of the handler catches what telegram.send throws
OnStatusSettled(m) == StatusSettled(m) /\ msgs'[m].pc # "rejected"

GwInit ==
  /\ handlers = [m \in Msgs |-> IdleHandler]
  /\ delivered = <<>>
  /\ chatOf = [m \in Msgs |-> 1]


\* =========================================================================
\* core/scheduler: the Scheduler (recurring tasks; a one-time task runs
\* executeTask from a timeout in place of the Cron callback)
\* =========================================================================
TaskIds == 1..MaxTasks
TaskChats == 1..MaxTaskChats
CancelCalls == 1..MaxCancels

\* tasks.includes(task)
Includes2(seq, t) == \E i \in DOMAIN seq : seq[i] = t

\* an executeTask call, named by the ticket of its processWithClaude call:
\* where it stands (claude: it awaits processWithClaude; send: it awaits the
\* fetch to /send) and its task
IdleExec == [pc |-> "idle", task |-> 0]

\* a cancelAllChatTasks call: where it stands (deleting: it awaits
\* deleteTask; done: it returned; threw: it rejected), its chatId, the index
\* i of its loop, and the tasks of the conversation that were in the list
\* when it was called
IdleCancel == [pc |-> "idle", chatId |-> NoChat, i |-> 0, existing |-> {}]

\* what the loop of cancelAllChatTasks finds from index i downwards (1-based):
\* the index of the next task of the conversation, 0 when the loop ends, -1
\* when tasks[i] is undefined and task.chatId throws
RECURSIVE NextMatch(_, _, _)
NextMatch(seq, i, chatId) ==
  IF i < 1 THEN 0
  ELSE IF i > Len(seq) THEN -1
  ELSE IF taskChat[seq[i]] = chatId THEN i
  ELSE NextMatch(seq, i - 1, chatId)

\* addTask(task) for a new cron task t of conversation c: push, scheduleTask
AddTask(t, c) ==
  /\ taskChat[t] = NoChat
  /\ \A u \in TaskIds : u < t => taskChat[u] # NoChat
  /\ \A d \in TaskChats : d < c => \E u \in TaskIds : taskChat[u] = d
  /\ taskChat' = [taskChat EXCEPT ![t] = c]
  /\ tasks' = Append(tasks, t)
  /\ activeJobs' = activeJobs \cup {t}
  /\ UNCHANGED <<inFlight, firing, execs, cancels, cancelled, queueVars,
                 lifeVars, bridgeVars, loginVars, cliVars, fixVars, workVars,
                 gwVars>>

\* the Cron callback of task t, up to its await saveTask(task)
CronFired(t) ==
  /\ t \in activeJobs
  /\ t \notin firing
  /\ firing' = firing \cup {t}
  /\ UNCHANGED <<tasks, taskChat, activeJobs, inFlight, execs, cancels,
                 cancelled, queueVars, lifeVars, bridgeVars, loginVars, cliVars,
                 fixVars, workVars, gwVars>>

\* executeTask(task), called by the Cron callback after saveTask, up to its
\* await processWithClaude(...)
ExecuteTask(t) ==
  /\ t \in firing
  /\ firing' = firing \ {t}
  /\ IF t \in inFlight \/ ~Includes2(tasks, t)
     THEN UNCHANGED <<inFlight, execs, queueVars>>
     ELSE /\ nextId <= MaxTaskTickets
          /\ inFlight' = inFlight \cup {t}
          /\ ProcessWithClaudeCall(taskChat[t], "task")
          /\ execs' = [execs EXCEPT ![nextId] = [pc |-> "claude", task |-> t]]
  /\ UNCHANGED <<tasks, taskChat, activeJobs, cancels, cancelled, lifeVars,
                 bridgeVars, loginVars, cliVars, fixVars, workVars, gwVars>>

\* a re-check that sends whatever came back
StillActiveAlways(seq, t) == TRUE

\* the re-check after processWithClaude: tasks.includes(task)
StillActive(seq, t) == Includes2(seq, t)

\* executeTask after processWithClaude(...) of ticket id: the re-check, then
\* the fetch to /send up to its await, or the return through the finally
\* clause
TaskResumed(id) ==
  /\ execs[id].pc = "claude"
  /\ promise[id].state = "fulfilled"
  /\ IF ~StillActive(tasks, execs[id].task) \/ promise[id].value = EmptyString
     THEN /\ execs' = [execs EXCEPT ![id] = IdleExec]
          /\ inFlight' = inFlight \ {execs[id].task}
     ELSE /\ execs' = [execs EXCEPT ![id].pc = "send"]
          /\ UNCHANGED inFlight
  /\ UNCHANGED <<tasks, taskChat, activeJobs, firing, cancels, cancelled,
                 queueVars, lifeVars, bridgeVars, loginVars, cliVars, fixVars,
                 workVars, gwVars>>

\* the fetch to /send settles: the finally clause of executeTask
TaskSendSettled(id) ==
  /\ execs[id].pc = "send"
  /\ execs' = [execs EXCEPT ![id] = IdleExec]
  /\ inFlight' = inFlight \ {execs[id].task}
  /\ UNCHANGED <<tasks, taskChat, activeJobs, firing, cancels, cancelled,
                 queueVars, lifeVars, bridgeVars, loginVars, cliVars, fixVars,
                 workVars, gwVars>>

\* the loop of cancelAllChatTasks call k goes on from index i over the list
\* seq: up to the await deleteTask(task.id) of the next task of the
\* conversation, or to the end (flushChatQueue, return), or to a throw
CancelLoop(k, seq, i, chatId, existing) ==
  LET j == NextMatch(seq, i, chatId)
  IN /\ tasks' = seq
     /\ IF j > 0
        THEN /\ activeJobs' = activeJobs \ {seq[j]}
             /\ inFlight' = inFlight \ {seq[j]}
             /\ cancels' = [cancels EXCEPT ![k] =
                              [pc |-> "deleting", chatId |-> chatId, i |-> j,
                               existing |-> existing]]
             /\ UNCHANGED <<cancelled, queueVars>>
        ELSE IF j = 0
        THEN /\ FlushChatQueueCall(chatId)
             /\ cancels' = [cancels EXCEPT ![k] = [IdleCancel EXCEPT !.pc = "done"]]
             /\ cancelled' = cancelled \cup existing
             /\ UNCHANGED <<activeJobs, inFlight>>
        ELSE /\ cancels' = [cancels EXCEPT ![k] = [IdleCancel EXCEPT !.pc = "threw"]]
             /\ UNCHANGED <<activeJobs, inFlight, cancelled, queueVars>>

\* cancelAllChatTasks(chatId) is called (call k), up to its first await
CancelAllChatTasks(k, chatId) ==
  /\ cancels[k].pc = "idle"
  /\ \A h \in CancelCalls : h < k => cancels[h].pc # "idle"
  /\ CancelLoop(k, tasks, Len(tasks), chatId,
                {t \in TaskIds : Includes2(tasks, t) /\ taskChat[t] = chatId})
  /\ UNCHANGED <<taskChat, firing, execs, lifeVars, bridgeVars, loginVars,
                 cliVars, fixVars, workVars, gwVars>>

\* await deleteTask(task.id) of call k resolves: tasks.splice(i, 1) (nothing
\* is removed when i is past the end), and the loop goes on at i - 1
DeleteTaskSettled(k) ==
  /\ cancels[k].pc = "deleting"
  /\ LET i == cancels[k].i
         spliced == IF i \in DOMAIN tasks THEN RemoveAt(tasks, i) ELSE tasks
     IN CancelLoop(k, spliced, i - 1, cancels[k].chatId, cancels[k].existing)
  /\ UNCHANGED <<taskChat, firing, execs, lifeVars, bridgeVars, loginVars,
                 cliVars, fixVars, workVars, gwVars>>

SchedInit ==
  /\ tasks = <<>>
  /\ taskChat = [t \in TaskIds |-> NoChat]
  /\ activeJobs = {}
  /\ inFlight = {}
  /\ firing = {}
  /\ execs = [id \in Tickets |-> IdleExec]
  /\ cancels = [k \in CancelCalls |-> IdleCancel]
  /\ cancelled = {}

SchedNext ==
  \/ \E t \in TaskIds, c \in TaskChats : AddTask(t, c)
  \/ \E t \in TaskIds : CronFired(t)
  \/ \E t \in TaskIds : ExecuteTask(t)
  \/ \E id \in Tickets : TaskResumed(id)
  \/ \E id \in Tickets : TaskSendSettled(id)
  \/ \E k \in CancelCalls, c \in TaskChats : CancelAllChatTasks(k, c)
  \/ \E k \in CancelCalls : DeleteTaskSettled(k)
  \/ \E id \in Tickets : ProcExited(id)
  \/ \E id \in Tickets : RunSettled(id)

LaterInit == WorkInit /\ GwInit /\ SchedInit


\* =========================================================================
\* daemon/claude-login, daemon/codex-login: Auth Recovery
\* =========================================================================
Backends == {"claude", "codex"}

\* trimmed.length > 200
CodeLengthLimit == 200

\* A message text, run-length encoded: a sequence of runs of one character
\* class. "sp" is U+0020, "ws" any other white space, "slash" is "/", "chr"
\* any other character, "nl" the line feed appended to a code.
Symbols == {"sp", "ws", "slash", "chr"}
Runs == [ch : Symbols, n : {1}] \cup {[ch |-> "chr", n |-> CodeLengthLimit]}
Texts == UNION {[1..k -> Runs] : k \in 0..MaxRuns}
NewLine == [ch |-> "nl", n |-> 1]

IsWhiteSpace(r) == r.ch \in {"sp", "ws"}

\* String.prototype.trim
RECURSIVE TrimStart(_)
TrimStart(t) ==
  IF t # <<>> /\ IsWhiteSpace(Head(t)) THEN TrimStart(Tail(t)) ELSE t

RECURSIVE TrimEnd(_)
TrimEnd(t) ==
  IF t # <<>> /\ IsWhiteSpace(t[Len(t)])
  THEN TrimEnd(SubSeq(t, 1, Len(t) - 1))
  ELSE t

TrimStartOnly(t) == TrimStart(t)
Trim(t) == TrimEnd(TrimStart(t))

\* String.prototype.length
RECURSIVE Length(_)
Length(t) == IF t = <<>> THEN 0 ELSE Head(t).n + Length(Tail(t))

StartsWith(t, ch) == t # <<>> /\ Head(t).ch = ch
Includes(t, ch) == \E i \in DOMAIN t : t[i].ch = ch

\* the negation of the "obvious non-code" test of maybeFeedClaudeCode
LooksLikeCode(trimmed) ==
  ~(\/ Length(trimmed) > CodeLengthLimit
    \/ StartsWith(trimmed, "slash")
    \/ Includes(trimmed, "sp"))

\* what the last handler sent through notifyFn: how many notices of one kind
\* ("url", "done") each conversation got
Notice(b, kind, chats) ==
  [backend |-> b, kind |-> kind,
   counts |-> [c \in Chats |-> IF c \in chats THEN 1 ELSE 0]]
NoNotice == Notice("none", "none", {})

\* the last line the handler wrote to the log
Logged(b, line) == [backend |-> b, line |-> line]
NoLog == Logged("none", "none")

\* a channel message handed to maybeFeedClaudeCode
Message(chatId, text) == [chatId |-> chatId, text |-> text]
Messages == [chatId : Chats, text : Texts]
NoMessage == Message(NoChat, <<>>)

\* the last maybeFeedClaudeCode call: whether it was made, its return value
\* and what it wrote to the subprocess's stdin
NoWrite == <<[ch |-> "none", n |-> 0]>>
Fed(consumed, written) == [called |-> TRUE, consumed |-> consumed, written |-> written]
NoFeed == [called |-> FALSE, consumed |-> FALSE, written |-> NoWrite]

LoginIdle ==
  /\ loginInProgress = [b \in Backends |-> FALSE]
  /\ cooling = [b \in Backends |-> FALSE]
  /\ pendingChatIds = [b \in Backends |-> {}]
  /\ pendingProc = FALSE
  /\ urlSent = [b \in Backends |-> FALSE]
  /\ loginPc = [b \in Backends |-> "idle"]
  /\ procs = [b \in Backends |-> 0]
  /\ exitCode = [b \in Backends |-> "none"]
  /\ printed = [b \in Backends |-> FALSE]
  /\ stdinLocked = FALSE
  /\ loginSent = NoNotice
  /\ lastLog = NoLog
  /\ fed = NoFeed

\* no code is typed back through the channel
LoginInit == LoginIdle /\ received = NoMessage

\* the .finally() callback of the run, and the subprocess forgotten with it
SessionEnd(b) ==
  /\ loginInProgress' = [loginInProgress EXCEPT ![b] = FALSE]
  /\ pendingProc' = IF b = "claude" THEN FALSE ELSE pendingProc
  /\ loginPc' = [loginPc EXCEPT ![b] = "idle"]
  /\ exitCode' = [exitCode EXCEPT ![b] = "none"]
  /\ printed' = [printed EXCEPT ![b] = FALSE]

\* the in-progress lock of both entry points
BusyNever(b) == FALSE
Busy(b) == loginInProgress[b]

\* lastLoginAttemptAt = now; loginInProgress = true; run...().finally(...):
\* the run as far as its first await. A failed Bun.spawn returns at once and
\* the finally callback runs before any other handler.
Launch(b, spawned) ==
  /\ cooling' = [cooling EXCEPT ![b] = TRUE]
  /\ urlSent' = [urlSent EXCEPT ![b] = FALSE]
  /\ IF spawned
     THEN /\ procs[b] < MaxProcs
          /\ loginInProgress' = [loginInProgress EXCEPT ![b] = TRUE]
          /\ pendingProc' = IF b = "claude" THEN TRUE ELSE pendingProc
          /\ stdinLocked' = IF b = "claude" THEN FALSE ELSE stdinLocked
          /\ loginPc' = [loginPc EXCEPT ![b] = "reading"]
          /\ procs' = [procs EXCEPT ![b] = @ + 1]
          /\ exitCode' = [exitCode EXCEPT ![b] = "none"]
          /\ printed' = [printed EXCEPT ![b] = FALSE]
          /\ lastLog' = Logged(b, "starting")
     ELSE /\ SessionEnd(b)
          /\ lastLog' = Logged(b, "spawn failed")
          /\ UNCHANGED <<procs, stdinLocked>>

\* now - lastLoginAttemptAt < RETRY_COOLDOWN_MS
InCooldownNever(b) == FALSE
InCooldown(b) == cooling[b]

\* maybeStartClaudeSetupToken / maybeStartCodexDeviceAuth
MaybeStart(b, hint, chatId, spawned) ==
  /\ loginSent' = NoNotice
  /\ fed' = NoFeed
  /\ UNCHANGED <<received, queueVars, lifeVars, bridgeVars, restVars>>
  /\ IF ~hint
     THEN /\ lastLog' = NoLog
          /\ UNCHANGED <<loginInProgress, cooling, pendingChatIds, pendingProc,
                         urlSent, loginPc, procs, exitCode, printed, stdinLocked>>
     ELSE /\ pendingChatIds' =
               [pendingChatIds EXCEPT ![b] = IF chatId # NoChat THEN @ \cup {chatId} ELSE @]
          /\ IF Busy(b)
             THEN /\ lastLog' = Logged(b, "duplicate")
                  /\ UNCHANGED <<loginInProgress, cooling, pendingProc, urlSent,
                                 loginPc, procs, exitCode, printed, stdinLocked>>
             ELSE IF InCooldown(b)
             THEN /\ lastLog' = Logged(b, "cooldown")
                  /\ UNCHANGED <<loginInProgress, cooling, pendingProc, urlSent,
                                 loginPc, procs, exitCode, printed, stdinLocked>>
             ELSE Launch(b, spawned)

\* startClaudeSetupToken
StartClaudeSetupToken(chatId, spawned) ==
  /\ loginSent' = NoNotice
  /\ fed' = NoFeed
  /\ UNCHANGED <<received, queueVars, lifeVars, bridgeVars, restVars>>
  /\ pendingChatIds' = [pendingChatIds EXCEPT !["claude"] = @ \cup {chatId}]
  /\ IF Busy("claude")
     THEN /\ lastLog' = Logged("claude", "duplicate")
          /\ UNCHANGED <<loginInProgress, cooling, pendingProc, urlSent,
                         loginPc, procs, exitCode, printed, stdinLocked>>
     ELSE Launch("claude", spawned)

\* RETRY_COOLDOWN_MS have passed since lastLoginAttemptAt
CooldownElapsed(b) ==
  /\ cooling[b]
  /\ cooling' = [cooling EXCEPT ![b] = FALSE]
  /\ loginSent' = NoNotice
  /\ lastLog' = NoLog
  /\ fed' = NoFeed
  /\ UNCHANGED <<loginInProgress, pendingChatIds, pendingProc, urlSent, loginPc,
                 procs, exitCode, printed, stdinLocked,
                 received, queueVars, lifeVars, bridgeVars, restVars>>

\* the login subprocess prints its login URL (and device code)
ProcPrintsUrl(b) ==
  /\ procs[b] > 0
  /\ exitCode[b] = "none"
  /\ ~printed[b]
  /\ printed' = [printed EXCEPT ![b] = TRUE]
  /\ loginSent' = NoNotice
  /\ lastLog' = NoLog
  /\ fed' = NoFeed
  /\ UNCHANGED <<loginInProgress, cooling, pendingChatIds, pendingProc, urlSent,
                 loginPc, procs, exitCode, stdinLocked,
                 received, queueVars, lifeVars, bridgeVars, restVars>>

\* the login subprocess exits and its output streams end
LoginProcExits(b, code) ==
  /\ procs[b] > 0
  /\ exitCode[b] = "none"
  /\ exitCode' = [exitCode EXCEPT ![b] = code]
  /\ procs' = [procs EXCEPT ![b] = @ - 1]
  /\ loginSent' = NoNotice
  /\ lastLog' = NoLog
  /\ fed' = NoFeed
  /\ UNCHANGED <<loginInProgress, cooling, pendingChatIds, pendingProc, urlSent,
                 loginPc, printed, stdinLocked,
                 received, queueVars, lifeVars, bridgeVars, restVars>>

\* when the output is searched for the URL: the Claude run searches every
\* chunk as it is read, the Codex run the whole output after the streams ended
UrlSearched(b) == b = "claude" \/ exitCode[b] # "none"

\* notifyPending from the run: the URL goes to the conversations pending now
UrlFound(b) ==
  /\ loginPc[b] = "reading"
  /\ printed[b]
  /\ ~urlSent[b]
  /\ UrlSearched(b)
  /\ urlSent' = [urlSent EXCEPT ![b] = TRUE]
  /\ IF pendingChatIds[b] = {}
     THEN /\ loginSent' = NoNotice
          /\ UNCHANGED loginPc
     ELSE /\ loginSent' = Notice(b, "url", pendingChatIds[b])
          /\ loginPc' = [loginPc EXCEPT ![b] = "url"]
  /\ lastLog' = NoLog
  /\ fed' = NoFeed
  /\ UNCHANGED <<loginInProgress, cooling, pendingChatIds, pendingProc, procs,
                 exitCode, printed, stdinLocked,
                 received, queueVars, lifeVars, bridgeVars, restVars>>

\* every notifyFn call of notifyPending has settled
UrlNotified(b) ==
  /\ loginPc[b] = "url"
  /\ loginPc' = [loginPc EXCEPT ![b] = "reading"]
  /\ loginSent' = NoNotice
  /\ lastLog' = NoLog
  /\ fed' = NoFeed
  /\ UNCHANGED <<loginInProgress, cooling, pendingChatIds, pendingProc, urlSent,
                 procs, exitCode, printed, stdinLocked,
                 received, queueVars, lifeVars, bridgeVars, restVars>>

\* const chats = Array.from(pendingChatIds), taken before the clear()
ChatsCleared(pend) == {}
ChatsToNotify(pend) == pend

\* the else branch of the exit-code test: only the Codex run clears
FailureClears(b) == b = "codex"

\* await proc.exited has settled: the exit-code test, with notifySuccess as
\* far as its await
LoginExited(b) ==
  /\ loginPc[b] = "reading"
  /\ exitCode[b] # "none"
  /\ printed[b] => urlSent[b]
  /\ fed' = NoFeed
  /\ UNCHANGED <<cooling, urlSent, procs, stdinLocked,
                 received, queueVars, lifeVars, bridgeVars, restVars>>
  /\ IF exitCode[b] = "ok"
     THEN /\ lastLog' = Logged(b, "finished successfully")
          /\ IF pendingChatIds[b] = {}
             THEN /\ loginSent' = NoNotice
                  /\ SessionEnd(b)
                  /\ UNCHANGED pendingChatIds
             ELSE /\ loginSent' = Notice(b, "done", ChatsToNotify(pendingChatIds[b]))
                  /\ pendingChatIds' = [pendingChatIds EXCEPT ![b] = {}]
                  /\ loginPc' = [loginPc EXCEPT ![b] = "success"]
                  /\ UNCHANGED <<loginInProgress, pendingProc, exitCode, printed>>
     ELSE /\ lastLog' = Logged(b, "finished with exit code")
          /\ loginSent' = NoNotice
          /\ pendingChatIds' =
               [pendingChatIds EXCEPT ![b] = IF FailureClears(b) THEN {} ELSE @]
          /\ SessionEnd(b)

\* every notifyFn call of notifySuccess has settled: the run is over
SuccessNotified(b) ==
  /\ loginPc[b] = "success"
  /\ SessionEnd(b)
  /\ loginSent' = NoNotice
  /\ lastLog' = NoLog
  /\ fed' = NoFeed
  /\ UNCHANGED <<cooling, pendingChatIds, urlSent, procs, stdinLocked,
                 received, queueVars, lifeVars, bridgeVars, restVars>>

\* writer.getWriter() throws while an earlier writer still holds the lock
GetWriterAlways == TRUE
GetWriter == ~stdinLocked

\* maybeFeedClaudeCode
MaybeFeedClaudeCode(chatId, text) ==
  LET trimmed == Trim(text)
      consumed == /\ pendingProc
                  /\ chatId \in pendingChatIds["claude"]
                  /\ LooksLikeCode(trimmed)
      wrote == consumed /\ GetWriter
  IN /\ fed' = Fed(consumed, IF wrote THEN trimmed \o <<NewLine>> ELSE NoWrite)
     /\ stdinLocked' = (stdinLocked \/ wrote)
     /\ lastLog' = IF consumed THEN Logged("claude", "feeding") ELSE NoLog
     /\ loginSent' = NoNotice
     /\ UNCHANGED <<loginInProgress, cooling, pendingChatIds, pendingProc, urlSent,
                    loginPc, procs, exitCode, printed,
                    received, queueVars, lifeVars, bridgeVars, restVars>>

\* w.write(...) is fulfilled: then(() => w.releaseLock())
WriteSettled ==
  /\ stdinLocked
  /\ stdinLocked' = FALSE
  /\ loginSent' = NoNotice
  /\ lastLog' = NoLog
  /\ fed' = NoFeed
  /\ UNCHANGED <<loginInProgress, cooling, pendingChatIds, pendingProc, urlSent,
                 loginPc, procs, exitCode, printed,
                 received, queueVars, lifeVars, bridgeVars, restVars>>

ExitCodes == {"ok", "failed"}

SessionNext(b) ==
  \/ \E c \in Chats \cup {NoChat}, spawned \in BOOLEAN : MaybeStart(b, TRUE, c, spawned)
  \/ MaybeStart(b, FALSE, NoChat, FALSE)
  \/ CooldownElapsed(b)
  \/ ProcPrintsUrl(b)
  \/ \E code \in ExitCodes : LoginProcExits(b, code)
  \/ UrlFound(b)
  \/ UrlNotified(b)
  \/ LoginExited(b)
  \/ SuccessNotified(b)

LoginNext ==
  \/ \E b \in Backends : SessionNext(b)
  \/ \E c \in Chats, spawned \in BOOLEAN : StartClaudeSetupToken(c, spawned)

\* the Claude flow started proactively, with the codes typed back through
\* the channel
FeedNext ==
  \/ \E c \in Chats, spawned \in BOOLEAN : StartClaudeSetupToken(c, spawned)
  \/ ProcPrintsUrl("claude")
  \/ \E code \in ExitCodes : LoginProcExits("claude", code)
  \/ UrlFound("claude")
  \/ UrlNotified("claude")
  \/ LoginExited("claude")
  \/ SuccessNotified("claude")
  \/ MaybeFeedClaudeCode(received.chatId, received.text)
  \/ WriteSettled

\* the channel hands the next inbound message to sendToCore
Arrive(limit) == \E m \in Msgs : m <= limit /\ SendToCore(m)

BridgeNext ==
  \/ \E s \in CoreStates : CoreStateWritten(s)
  \/ Arrive(MaxMsgs)
  \/ \E m \in Msgs : StatusSettled(m)
  \/ \E m \in Msgs : WaitPoll(m)
  \/ \E m \in Msgs : PostSettled(m)
  \/ \E m \in Msgs : SleepDone(m)
  \/ \E m \in Msgs : FallbackStart(m)
  \/ \E m \in Msgs : FallbackSettled(m)

\* the components added after the Bridge are idle
RestInit == CliInit /\ FixInit /\ LaterInit

InitBridge == QueueInit /\ LifeInit /\ BridgeInit /\ LoginInit /\ RestInit
NextBridge == BridgeNext
SpecBridge == InitBridge /\ [][NextBridge]_vars

NextBridgeFew ==
  \/ \E s \in CoreStates : CoreStateWritten(s)
  \/ Arrive(MaxFairMsgs)
  \/ \E m \in Msgs : StatusSettled(m)
  \/ \E m \in Msgs : WaitPoll(m)
  \/ \E m \in Msgs : PostSettled(m)
  \/ \E m \in Msgs : SleepDone(m)
  \/ \E m \in Msgs : FallbackStart(m)
  \/ \E m \in Msgs : FallbackSettled(m)

\* the messages that Arrive(MaxFairMsgs) hands to the Bridge
FairMsgs == 1..MaxFairMsgs

\* the await the sendToCore call of m is suspended at is over; the position
\* of the call enables at most one of these
Resumed(m) ==
  \/ StatusSettled(m)
  \/ WaitPoll(m)
  \/ PostSettled(m)
  \/ SleepDone(m)
  \/ FallbackStart(m)
  \/ FallbackSettled(m)

\* every onStatus call, Worker POST, sleep, poll and fallback CLI run settles
FairSpecBridge ==
  /\ InitBridge /\ [][NextBridgeFew]_vars
  /\ \A m \in FairMsgs : WF_vars(Resumed(m))

\* ------------------------------------------------------------------------
\* Properties of the Supervisor
\* ------------------------------------------------------------------------
HealthSteps == {<<"down", "starting">>, <<"starting", "up">>,
                <<"up", "down">>, <<"starting", "down">>}

\* C10: the health value only follows Down->Starting->Up->Down or
\* Down->Starting->Down; in particular it never goes from Up to Starting
\* without an intervening Down.
C10_HealthMonotone ==
  [][coreState' # coreState => <<coreState, coreState'>> \in HealthSteps]_vars

\* ------------------------------------------------------------------------
\* Properties of the Bridge
\* ------------------------------------------------------------------------

C7_Settles ==
  \A m \in FairMsgs : (msgs[m].pc # "idle") ~> (msgs[m].pc \in Settled)

\* two messages went through the fallback chain and every message that was
\* handed to the Bridge has settled
C7_Witness ==
  /\ arrived >= 2
  /\ \A m \in Msgs : msgs[m].pc \in Settled \cup {"idle"}
  /\ Len(fbOrder) >= 2

\* C8: at most one fallbackClaude invocation runs at any time, also after an
\* earlier fallback invocation failed.
C8_FallbackSerial == Cardinality(fbRunning) <= 1

\* a fallback runs while another message waits in the chain, after an earlier
\* fallback invocation failed
C8_Witness ==
  /\ fbRunning # {}
  /\ \E m \in Msgs : msgs[m].pc = "fb_chained"
  /\ \E m \in Msgs : msgs[m].pc = "done" /\ msgs[m].text \in {"fallback failed", "fallback unreachable"}

\* C9 as stated: the fallback CLI answers the messages in the order of their
\* sendToCore calls (message ids count the calls).
C9_ArrivalOrder ==
  \A i, j \in 1..Len(fbOrder) : i < j => fbOrder[i] < fbOrder[j]

\* C9, amended: the fallback CLI answers the messages in the order in which
\* their runFallback calls chained onto fallbackQueue.
C9_ChainOrder ==
  /\ Len(fbOrder) <= Len(chained)
  /\ fbOrder = SubSeq(chained, 1, Len(fbOrder))

\* the fallback answered a later message before an earlier one
C9_Witness ==
  /\ Len(fbOrder) >= 2
  /\ fbOrder[1] > fbOrder[2]

\* no message has been handed to the Bridge
BridgeIdle == BridgeInit

InitLife == QueueInit /\ LifeInit /\ BridgeIdle /\ LoginInit /\ RestInit
NextLife == LifeNext
SpecLife == InitLife /\ [][NextLife]_vars

InitLogin == QueueInit /\ LifeInit /\ BridgeIdle /\ LoginInit /\ RestInit
NextLogin == LoginNext
SpecLogin == InitLogin /\ [][NextLogin]_vars

NextFeed == FeedNext
\* the user types one message back during the Claude flow, any number of times
InitFeed ==
  QueueInit /\ LifeInit /\ BridgeIdle /\ LoginIdle /\ received \in Messages /\ RestInit
SpecFeed == InitFeed /\ [][NextFeed]_vars


\* either copy of daemon/fallback over daemon/agent-cli
InitFallback ==
  QueueInit /\ LifeInit /\ BridgeIdle /\ LoginInit /\ CliIdle /\ cliErrorCheck \in BOOLEAN
  /\ FixInit /\ LaterInit
NextFallback == CliNext
SpecFallback == InitFallback /\ [][NextFallback]_vars

\* the Worker handles messages and due tasks with any set of CLIs installed
InitWorker ==
  /\ QueueInit /\ LifeInit /\ BridgeIdle /\ LoginInit /\ CliInit /\ FixInit /\ GwInit
  /\ SchedInit
  /\ reqs = [r \in Reqs |-> IdleReq]
  /\ backendState = [c \in Chats |-> "unset"]
  /\ deps \in SUBSET AgentCli
  /\ verifiedCli = NoCli
NextWorker == WorkNext
SpecWorker == InitWorker /\ [][NextWorker]_vars

\* the Gateway from the channel to the Bridge and back, the conversation of
\* every message being any of Chats
InitGateway ==
  /\ QueueInit /\ LifeInit /\ BridgeInit /\ LoginInit /\ CliInit /\ FixInit /\ WorkInit
  /\ SchedInit
  /\ handlers = [m \in Msgs |-> IdleHandler]
  /\ delivered = <<>>
  /\ chatOf \in [Msgs -> Chats]
NextGateway ==
  \/ \E s \in CoreStates : CoreStateWritten(s)
  \/ Arrive(MaxFairMsgs)
  \/ \E m \in Msgs : OnStatusSettled(m)
  \/ \E m \in Msgs : WaitPoll(m)
  \/ \E m \in Msgs : PostSettled(m)
  \/ \E m \in Msgs : SleepDone(m)
  \/ \E m \in Msgs : FallbackStart(m)
  \/ \E m \in Msgs : FallbackSettled(m)
  \/ \E m \in Msgs, body \in Bodies, parts \in Parts : ResponseReceived(m, body, parts)
  \/ \E m \in Msgs, ok \in BOOLEAN : SendSettled(m, ok)
  \/ \E m \in Msgs, ok \in BOOLEAN : NoticeSettled(m, ok)
SpecGateway == InitGateway /\ [][NextGateway]_vars

\* every onStatus call, Worker POST, sleep, poll, fallback CLI run and call
\* to the channel settles
FairSpecGateway ==
  /\ SpecGateway
  /\ \A m \in Msgs : /\ WF_vars(OnStatusSettled(m))
                     /\ WF_vars(WaitPoll(m))
                     /\ WF_vars(PostSettled(m))
                     /\ WF_vars(SleepDone(m))
                     /\ WF_vars(FallbackStart(m))
                     /\ WF_vars(FallbackSettled(m))
                     /\ WF_vars(\E body \in Bodies, parts \in Parts :
                                  ResponseReceived(m, body, parts))
                     /\ WF_vars(\E ok \in BOOLEAN : SendSettled(m, ok))
                     /\ WF_vars(\E ok \in BOOLEAN : NoticeSettled(m, ok))

InitAutoFix == QueueInit /\ LifeInit /\ BridgeIdle /\ LoginInit /\ RestInit
NextAutoFix == FixNext
SpecAutoFix == InitAutoFix /\ [][NextAutoFix]_vars

InitQueue == QueueInit /\ LifeInit /\ BridgeIdle /\ LoginInit /\ RestInit
NextQueue == QueueNext
SpecQueue == InitQueue /\ [][NextQueue]_vars

NextQueueFew ==
  \/ Submit(MaxFairTickets)
  \/ \E c \in Chats : FlushChatQueue(c)
  \/ \E id \in Tickets : ProcExited(id)
  \/ \E id \in Tickets : RunSettled(id)

\* every claude subprocess exits or is killed by its timeout, and the event
\* loop runs every continuation that is ready
FairSpecQueue ==
  /\ InitQueue /\ [][NextQueueFew]_vars
  /\ WF_vars(\E id \in Tickets : ProcExited(id))
  /\ WF_vars(\E id \in Tickets : RunSettled(id))

\* the conversations of the callers that go on
LoopChats == 1..MaxLoopChats

\* the first calls of processWithClaude, by core/index and the scheduler
SubmitLoop ==
  /\ nextId <= MaxFairTickets
  /\ \E c \in LoopChats, s \in QueueSource : ProcessWithClaude(c, s)

\* users that go on sending messages for as long as they like
NextQueueLoop ==
  \/ SubmitLoop
  \/ \E id \in Tickets, c \in LoopChats : Resubmit(id, c, "user")
  \/ \E c \in LoopChats : FlushChatQueue(c)
  \/ \E id \in Tickets : ProcExited(id)
  \/ \E id \in Tickets : RunSettled(id)

\* every claude subprocess exits or is killed by its timeout, and the event
\* loop runs every continuation that is ready; the callers are free
FairSpecQueueLoop ==
  /\ InitQueue /\ [][NextQueueLoop]_vars
  /\ WF_vars(\E id \in Tickets : ProcExited(id))
  /\ WF_vars(\E id \in Tickets : RunSettled(id))

\* ------------------------------------------------------------------------
\* Properties of the Invocation Queue
\* ------------------------------------------------------------------------
Active == {id \in Tickets : run[id] \in {"spawned", "reading", "threw"}}
Queued == {queue[i].id : i \in 1..Len(queue)}
IsUserItem(it) == it.source = "user"

\* C1: at most one queue-serviced CLI run (runClaude) is in flight at any
\* time, under every interleaving of submissions, flushes and completions.
C1_SingleFlight ==
  /\ Cardinality(Active) <= 1
  /\ (Active # {} => processing)

\* a run is in flight while two more tickets wait in the queue
C1_Witness == (\E id \in Tickets : run[id] = "spawned") /\ Len(queue) >= 2

C2_Safe ==
  \A id \in Tickets :
    /\ promise[id].state # "rejected"
    /\ promise[id].resolves <= 1
    /\ (promise[id].state = "fulfilled") = (promise[id].resolves = 1)
    /\ (run[id] = "done" => promise[id].state = "fulfilled")
    /\ (promise[id].state = "fulfilled" =>
          IF id \in flushLog
          THEN promise[id].value = EmptyString
          ELSE /\ run[id] = "done"
               /\ promise[id].value \in {[kind |-> "result", of |-> id],
                                          [kind |-> "error", of |-> id]})

C2_Step ==
  \A id \in Tickets :
    /\ (run[id] = "threw" /\ run'[id] = "done")
          => promise'[id].value = [kind |-> "error", of |-> id]
    /\ (run[id] = "reading" /\ run'[id] = "done")
          => promise'[id].value = [kind |-> "result", of |-> id]
    /\ (promise[id].state = "fulfilled" => promise'[id] = promise[id])

C3_Pool == Queued \cup {id \in Tickets : promise[id].state = "none" /\ promise'[id].state # "none"}

C3_PickRule ==
  \A t \in Tickets :
    (run[t] = "none" /\ run'[t] # "none") =>
      LET users == {id \in C3_Pool : meta'[id].source = "user"}
      IN IF users # {}
         THEN t \in users /\ \A u \in users : t <= u
         ELSE t \in C3_Pool /\ \A o \in C3_Pool : t <= o

\* a ticket is serviced ahead of an earlier one that still waits only as a user
\* ticket ahead of a task ticket (the source of a is on record while its run
\* is in flight)
C3_Order ==
  \A a \in Tickets, b \in Queued :
    (run[a] # "none" /\ b < a) =>
      /\ meta[b].source = "task"
      /\ (a \in Active => meta[a].source = "user")

\* C3: a starting service picks the earliest-submitted user ticket if one is
\* queued, else the earliest-submitted ticket; so of two tickets that were both
\* queued, a task ticket is never serviced before a user ticket, and tickets
\* of the same priority are serviced in submission order.
C3_Priority == [][C3_PickRule]_vars /\ []C3_Order

\* a user ticket was serviced while a task ticket submitted before it still waits
C3_Witness ==
  \E u, t \in Tickets :
    /\ t < u
    /\ meta[t].source = "task" /\ meta[u].source = "user"
    /\ run[u] # "none"
    /\ t \in Queued

C4_FlushStep ==
  lastOp'.op = "flush" =>
    /\ SelectSeq(queue', IsUserItem) = SelectSeq(queue, IsUserItem)
    /\ \A id \in Tickets : meta[id].source = "user" => promise'[id] = promise[id]
    /\ run' = run
    /\ processing' = processing
    /\ \A id \in Active : promise'[id] = promise[id] /\ id \in Active'

\* C4: flushChatQueue(c) never resolves or removes a user-priority ticket and
\* never changes the in-flight invocation, whatever c is.
C4_FlushSafety == [][C4_FlushStep]_vars

\* a flush of chat c has removed a ticket while a user ticket of c is queued
\* and the run in flight belongs to c as well
C4_Witness ==
  /\ lastOp.op = "flush"
  /\ flushLog # {}
  /\ \E i \in 1..Len(queue) : queue[i].source = "user" /\ queue[i].chatId = lastOp.arg
  /\ \E id \in Active : meta[id].chatId = lastOp.arg /\ promise[id].state = "pending"

C5_FlushStep ==
  lastOp'.op = "flush" =>
    LET c == lastOp'.arg
        Keep(it) == ~(it.chatId = c /\ it.source = "task")
        gone == {queue[i].id : i \in {k \in 1..Len(queue) : ~Keep(queue[k])}}
    IN /\ queue' = SelectSeq(queue, Keep)
       /\ \A id \in gone : /\ promise'[id].state = "fulfilled"
                           /\ promise'[id].value = EmptyString
       /\ \A id \in Tickets \ gone : promise'[id] = promise[id]
       /\ flushLog' = flushLog \cup gone

\* C5: flushChatQueue(c) removes exactly the queued task tickets of chat c,
\* resolves each at once with "", leaves the other queued tickets in the same
\* relative order, and no CLI run is ever started for a flushed ticket.
C5_FlushExact ==
  /\ [][C5_FlushStep]_vars
  /\ [](\A id \in flushLog : run[id] = "none" /\ id \notin Queued)

\* a flush removed a ticket from between two tickets that are still queued
C5_Witness ==
  /\ lastOp.op = "flush"
  /\ \E t \in flushLog, a, b \in Queued :
       /\ a < t /\ t < b
       /\ promise[t].value = EmptyString

\* ------------------------------------------------------------------------
\* Supervisor claims (SpecLife)
\* ------------------------------------------------------------------------

\* the Supervisor with fewer closures, restart timers and handleError calls
\* at a time
LifeFew ==
  /\ Cardinality(Children \ FreeSlots) <= MaxFewSpawns
  /\ restartTimers <= MaxFewTimers
  /\ InFlight(repairs) <= MaxFewRepairs

NextLifeFew ==
  \/ Boot /\ LifeFew'
  \/ RestartTimerFired /\ LifeFew'
  \/ HealthTick /\ LifeFew'
  \/ WorkerAnswersProbe /\ LifeFew'
  \/ ProbeFailed /\ LifeFew'
  \/ ProbeOk /\ LifeFew'
  \/ \E c \in Children : OnErrorDetected(c) /\ LifeFew'
  \/ \E c \in Children : DebounceFired(c) /\ LifeFew'
  \/ \E c \in Children : OnExit(c) /\ LifeFew'
  \/ \E c \in Children : StreamEnd(c) /\ LifeFew'
  \/ WindowElapsed /\ LifeFew'
  \/ \E fixed \in BOOLEAN : AttemptAutoFixDone(fixed) /\ LifeFew'
  \/ \E fixed \in BOOLEAN : HandleErrorDone(fixed) /\ LifeFew'
  \/ StopCore /\ LifeFew'

SpecLifeFew == InitLife /\ [][NextLifeFew]_vars

\* child c exits in this step
Exits(c) == c \in alive /\ c \notin alive'

\* a child is spawned in this step
Spawned == alive' \ alive

\* a handleError call whose attemptAutoFix returned true finishes in this step
FixedRepairEnds == repairs'.fixed < repairs.fixed

\* C11: at no time are two Worker child processes alive at once; startCore is
\* only ever reached (restart timer, restart after Auto-Repair) when every
\* previously spawned child has exited.
C11_OneWorker == Cardinality(alive) <= 1

\* C12: when a child exits within 10 seconds of the previous exit, the crash
\* counter is at least 2 and the exit is answered by Auto-Repair (a repair is
\* in progress after the exit) and not by arming the 2 s restart timer.
C12_RapidExitRepairs ==
  [][\A c \in Children :
       (Exits(c) /\ RapidCrash(lastCrash) /\ shouldRun) =>
         /\ crashCount' >= RAPID_CRASHES
         /\ autofixInProgress'
         /\ restartTimers' = restartTimers]_vars

\* C13 as stated: when a successful Auto-Repair finishes (Supervisor not
\* stopped), a new Worker is spawned and health becomes Starting, also when
\* the Worker that showed the fatal pattern is still running.
C13_RepairRestarts ==
  [][(FixedRepairEnds /\ shouldRun) =>
       (Spawned # {} /\ coreState' = "starting")]_vars

\* C13 amended: when a successful Auto-Repair finishes (Supervisor not
\* stopped), a new Worker is spawned exactly when no child is attached
\* (coreProcess is null); health then becomes Starting, or Down when
\* crashCount > 3. With a child attached, no Worker is spawned and health and
\* the attached child are left as they are.
C13_RepairRestartsDetached ==
  [][(FixedRepairEnds /\ shouldRun) =>
       IF coreProcess = 0
       THEN /\ \E c \in Spawned : coreProcess' = c /\ Spawned = {c}
            /\ coreState' = StartState(crashCount)
       ELSE /\ Spawned = {}
            /\ coreState' = coreState
            /\ coreProcess' = coreProcess]_vars

\* a child spawned by the finally clause of a successful repair is starting
C13_Witness ==
  \E c \in alive :
    startedBy[c] = "fixed" /\ coreProcess = c /\ coreState = "starting"

\* C14: the exit of a Worker that was spawned after a successful Auto-Repair
\* does not call handleError again: it arms the plain 2 s restart.
C14_NoRepairAfterFix ==
  [][\A c \in Children :
       (Exits(c) /\ startedBy[c] = "fixed" /\ shouldRun /\ ~autofixInProgress) =>
         /\ InFlight(repairs') = InFlight(repairs)
         /\ restartTimers' = restartTimers + 1]_vars

\* ------------------------------------------------------------------------
\* Routing claims of the Bridge (SpecBridgeFew)
\* ------------------------------------------------------------------------

SpecBridgeFew == InitBridge /\ [][NextBridgeFew]_vars

\* how many times the fallback was invoked for message m
FallbackCalls(m) == Cardinality({i \in 1..Len(fbOrder) : fbOrder[i] = m})

\* message m is handed to sendToCore in this step
Routed(m) == msgs[m].pc = "idle" /\ msgs'[m].pc # "idle"

FallbackPcs == {"fb_status", "fb_chained", "fb_running"}

C15_State ==
  \A m \in Msgs :
    msgs[m].route = "down" =>
      /\ msgs[m].pc \in FallbackPcs
      /\ msgs[m].posts = 0 /\ msgs[m].polls = 0 /\ msgs[m].notes = 1
      /\ (msgs[m].pc = "fb_status" => \A i \in 1..Len(chained) : chained[i] # m)
      /\ FallbackCalls(m) = IF msgs[m].pc = "fb_running" THEN 1 ELSE 0

C15_Step ==
  \A m \in Msgs :
    /\ (Routed(m) /\ coreState = "down") =>
          msgs'[m].route = "down" /\ msgs'[m].pc = "fb_status"
    /\ (msgs[m].route = "down" /\ msgs'[m] # msgs[m]) =>
          CASE msgs[m].pc = "fb_status" ->
                 \/ msgs'[m].pc = "fb_chained"
                 \/ msgs'[m].pc = "rejected" /\ msgs'[m].statusFailed
            [] msgs[m].pc = "fb_chained" -> msgs'[m].pc = "fb_running"
            [] msgs[m].pc = "fb_running" ->
                 /\ msgs'[m].pc = "done"
                 /\ msgs'[m].text \notin {"none", "core"}
                 /\ FallbackCalls(m)' = 1
            [] OTHER -> FALSE

\* C15: a message routed while health is Down makes no POST to the Worker and
\* no health wait; it sends one status notification and, once that has
\* settled, invokes the fallback exactly once and returns its answer.
C15_DownRoute == []C15_State /\ [][C15_Step]_vars

\* the fallback runs for a message that was routed while health was Down
C15_Witness ==
  \E m \in Msgs :
    msgs[m].route = "down" /\ msgs[m].pc = "fb_running" /\ m \in fbRunning

C16_State ==
  \A m \in Msgs :
    msgs[m].route = "up" =>
      /\ msgs[m].pc \in {"up_post1", "up_status", "up_sleep", "up_post2"} \cup FallbackPcs
      /\ (msgs[m].pc \in {"up_post1", "up_status", "up_sleep"} => msgs[m].posts = 1)
      /\ (msgs[m].pc = "up_post2" => msgs[m].posts = 2)
      /\ (msgs[m].pc \notin {"fb_chained", "fb_running"} =>
            \A i \in 1..Len(chained) : chained[i] # m)
      /\ FallbackCalls(m) = IF msgs[m].pc = "fb_running" THEN 1 ELSE 0

C16_Step ==
  \A m \in Msgs :
    /\ (Routed(m) /\ coreState = "up") =>
          msgs'[m].route = "up" /\ msgs'[m].pc = "up_post1"
    /\ (msgs[m].route = "up" /\ msgs'[m] # msgs[m]) =>
          CASE msgs[m].pc \in {"up_post1", "up_post2"} ->
                 \/ /\ msgs'[m].pc = "done"
                    /\ msgs'[m].text = "core"
                    /\ FallbackCalls(m)' = 0
                 \/ /\ msgs'[m].pc = IF msgs[m].pc = "up_post1"
                                     THEN "up_status" ELSE "fb_status"
                    /\ FallbackCalls(m)' = 0
            [] msgs[m].pc = "up_status" ->
                 \/ msgs'[m].pc = "up_sleep"
                 \/ msgs'[m].pc = "rejected" /\ msgs'[m].statusFailed
            [] msgs[m].pc = "up_sleep" -> msgs'[m].pc = "up_post2"
            [] msgs[m].pc = "fb_status" ->
                 \/ msgs'[m].pc = "fb_chained"
                 \/ msgs'[m].pc = "rejected" /\ msgs'[m].statusFailed
            [] msgs[m].pc = "fb_chained" -> msgs'[m].pc = "fb_running"
            [] msgs[m].pc = "fb_running" ->
                 /\ msgs'[m].pc = "done"
                 /\ msgs'[m].text \notin {"none", "core"}
                 /\ FallbackCalls(m)' = 1
            [] OTHER -> FALSE

\* C16: a message routed while health is Up returns the Worker's response of
\* the first successful POST, of at most two attempts, with no fallback
\* invocation; the fallback is invoked, exactly once, if and only if both
\* POST attempts failed.
C16_UpRoute == []C16_State /\ [][C16_Step]_vars

\* the fallback runs for a message routed while health was Up, after its two
\* POST attempts failed, and another message was answered by the Worker
C16_Witness ==
  \E m, n \in Msgs :
    /\ msgs[m].route = "up" /\ msgs[m].pc = "fb_running"
    /\ msgs[n].pc = "done" /\ msgs[n].text = "core"

\* =========================================================================
\* Auth Recovery claims (SpecLogin, SpecFeed)
\* =========================================================================

\* the run of backend b passes its exit-code test in this step
ExitObserved(b) ==
  /\ loginPc[b] = "reading"
  /\ exitCode[b] # "none"
  /\ loginPc'[b] \in {"idle", "success"}

\* C17: for each backend at most one recovery login subprocess exists at any
\* time; an auth-failure trigger or a proactive start that arrives while a
\* recovery is in progress starts no second subprocess.
C17_State == \A b \in Backends : procs[b] <= 1

C17_Step == \A b \in Backends : loginInProgress[b] => procs'[b] <= procs[b]

C17_OneLogin == []C17_State /\ [][C17_Step]_vars

\* a duplicate Codex trigger was just skipped while both backends have their
\* one subprocess
C17_Witness ==
  /\ lastLog = Logged("codex", "duplicate")
  /\ procs["codex"] = 1
  /\ procs["claude"] = 1

\* completion notices conversation c got from backend b in the last step
DoneCount(sent, b, c) ==
  IF sent.backend = b /\ sent.kind = "done" THEN sent.counts[c] ELSE 0

\* C18: when a recovery subprocess exits successfully, every conversation that
\* is pending for that backend at that moment is sent the completion notice
\* exactly once: a conversation pending while the subprocess exists stays
\* pending until the exit is handled, the handling step sends one notice to
\* each pending conversation, and no other step sends a completion notice.
C18_Step ==
  \A b \in Backends :
    /\ (loginInProgress[b] /\ ~ExitObserved(b))
         => pendingChatIds[b] \subseteq pendingChatIds'[b]
    /\ \A c \in Chats :
         DoneCount(loginSent', b, c) =
           IF ExitObserved(b) /\ exitCode[b] = "ok" /\ c \in pendingChatIds[b]
           THEN 1 ELSE 0

C19_Step ==
  \A b \in Backends :
    (loginInProgress[b] /\ ~loginInProgress'[b]) => pendingChatIds'[b] = {}

C19_EndsEmpty == [][C19_Step]_vars

\* the text between the first and the last character that is not white space
Trimmed(t) ==
  LET solid == {i \in DOMAIN t : ~IsWhiteSpace(t[i])}
  IN IF solid = {}
     THEN <<>>
     ELSE SubSeq(t, CHOOSE i \in solid : \A j \in solid : i <= j,
                    CHOOSE i \in solid : \A j \in solid : j <= i)

\* a login subprocess is pending, the conversation is pending, and the
\* trimmed text is a short code
FeedAccepted ==
  LET code == Trimmed(received.text)
  IN /\ pendingProc
     /\ received.chatId \in pendingChatIds["claude"]
     /\ Length(code) <= CodeLengthLimit
     /\ (code = <<>> \/ code[1].ch # "slash")
     /\ \A i \in DOMAIN code : code[i].ch # "sp"

\* C20 (as stated): maybeFeedClaudeCode reports the message as consumed and
\* writes the trimmed text to the subprocess's stdin if and only if a login
\* subprocess is pending, the conversation is pending, and the trimmed text
\* is at most 200 characters, does not start with "/" and contains no space;
\* otherwise it returns false and writes nothing.
C20_Step ==
  fed'.called =>
    IF FeedAccepted
    THEN fed'.consumed /\ fed'.written = Trimmed(received.text) \o <<NewLine>>
    ELSE ~fed'.consumed /\ fed'.written = NoWrite

C20_FeedWrites == [][C20_Step]_vars

\* C20 (amended): maybeFeedClaudeCode returns true if and only if a login
\* subprocess is pending, the conversation is pending, and the trimmed text
\* is at most 200 characters, does not start with "/" and contains no space.
\* It writes only when it returns true, and then the trimmed text followed by
\* a line feed, provided no earlier write still holds the stdin writer; when
\* one does, it returns true and writes nothing.
C20_StepLocked ==
  fed'.called =>
    /\ fed'.consumed = FeedAccepted
    /\ fed'.written = IF FeedAccepted /\ ~stdinLocked
                      THEN Trimmed(received.text) \o <<NewLine>>
                      ELSE NoWrite

C20_FeedConsumes == [][C20_StepLocked]_vars

\* a code was consumed and written with white space trimmed away
C20_Witness ==
  /\ fed.called
  /\ fed.consumed
  /\ fed.written # NoWrite
  /\ Len(fed.written) - 1 < Len(received.text)

\* =========================================================================
\* Fallback Invoker claims (SpecFallback)
\* =========================================================================

\* the run printed something other than white space
HasOutput(ran) == ~ran.threw /\ ran.output \in {"answer", "error"}

\* the run failed: it threw, exited non-zero or printed nothing
RunFailed(ran) == ran.threw \/ ran.exitCode # 0 \/ ~HasOutput(ran)

\* the reply is one of the "[Fallback mode] ... fallback is unavailable" notices
SaysUnavailable == reply.labelled /\ reply.unavailable

\* C21 (as stated): fallbackClaude always fulfils with a non-empty string and
\* never throws; when no agent CLI is available, when every attempted CLI
\* fails, or when invoking the CLI throws, it returns a message labelled
\* "[Fallback mode]" saying that fallback is unavailable.
C21_AllFailedUnavailable ==
  fbPc = "done" =>
    /\ reply # NoReply
    /\ reply.kind = "output" => reply.output # "empty"
    /\ (\A i \in DOMAIN runLog : RunFailed(runLog[i].ran)) => SaysUnavailable

\* C21 (amended): fallbackClaude always fulfils with a non-empty string and
\* never throws; when no agent CLI is available, or when every attempted CLI
\* throws or ends without output, it returns a message labelled
\* "[Fallback mode]" saying that fallback is unavailable. The output of a CLI
\* that exited non-zero is not covered: it is a partial candidate.
C21_NoOutputUnavailable ==
  fbPc = "done" =>
    /\ reply # NoReply
    /\ reply.kind = "output" => reply.output \in {"answer", "error"}
    /\ (\A i \in DOMAIN runLog : ~HasOutput(runLog[i].ran)) => SaysUnavailable

\* both CLIs were tried, neither printed anything, one of them threw
C21_Witness ==
  /\ fbPc = "done"
  /\ Len(runLog) = 2
  /\ reply.kind = "both failed"
  /\ \E i \in DOMAIN runLog : runLog[i].ran.threw

\* the run failed as the CLI selection rule has it: non-zero exit, empty
\* output, or output that is an auth/rate-limit error and not an answer
SelectionFailed(ran) == RunFailed(ran) \/ LooksLikeCliError(ran.output)

\* C29: runWithCliFallback tries the available CLIs in order (claude, then
\* codex) and treats a run as failed, moving to the next CLI, when it exits
\* non-zero, produces empty output, or produces output matching an
\* auth/rate-limit error signature; it returns the first run that is not
\* failed and invokes no CLI after it.
C29_FirstGoodRun ==
  /\ \A i \in DOMAIN runLog :
       /\ i <= Len(candidates)
       /\ runLog[i].cli = candidates[i]
       /\ i < Len(runLog) => SelectionFailed(runLog[i].ran)
  /\ (fbPc = "done" /\ runLog # <<>>) =>
       LET last == runLog[Len(runLog)]
       IN IF SelectionFailed(last.ran)
          THEN Len(runLog) = Len(candidates)
          ELSE reply = Reply("output", last.cli, last.ran.output)

\* the run of the CLI whose output the reply carries
RepliedRun == CHOOSE e \in {runLog[i] : i \in DOMAIN runLog} : e.cli = reply.cli

\* a CLI exited 0 with output
SomeSuccess ==
  \E i \in DOMAIN runLog : runLog[i].ran.exitCode = 0 /\ HasOutput(runLog[i].ran)

\* C30: output of a CLI that exited non-zero is returned to the user only if
\* no CLI exited 0 with non-empty output and only if that output does not
\* look like a raw CLI error; otherwise the user gets a labelled
\* fallback-failure message.
C30_PartialChecked ==
  (fbPc = "done" /\ runLog # <<>>) =>
    /\ (reply.kind = "output" /\ RepliedRun.ran.exitCode # 0)
         => ~SomeSuccess /\ ~LooksLikeCliError(reply.output)
    /\ (/\ ~SomeSuccess
        /\ partial # NoResult
        /\ LooksLikeCliError(partial.output)) => reply.labelled

\* =========================================================================
\* Auto-Repair claims (SpecAutoFix)
\* =========================================================================

\* C22: the attempt counter never exceeds MAX_ATTEMPTS (3); attemptAutoFix
\* invokes an agent CLI only while the counter is below 3, the counter is
\* reset only when more than 120 s have passed since the last accepted
\* attempt, and a refused attempt returns false without spawning any CLI.
C22_Step ==
  /\ attemptCount' < attemptCount => sinceAttempt > 120000
  /\ fixLog'.op = "accepted" =>
       /\ (attemptCount < 3 \/ sinceAttempt > 120000)
       /\ attemptCount' < 3 + 1
       /\ sinceAttempt' = 0
  /\ fixLog'.op = "refused" =>
       /\ attemptCount = 3
       /\ ~fixLog'.value
       /\ fixFrames' = fixFrames
  /\ fixFrames'.cli > fixFrames.cli => fixFrames'.notify < fixFrames.notify
  /\ fixFrames'.notify > fixFrames.notify => fixLog'.op = "accepted"

C22_RateLimit == [](attemptCount <= 3) /\ [][C22_Step]_vars

\* an attempt was refused exactly 120 s after the third accepted one
C22_Witness ==
  /\ fixLog = FixLog("refused", FALSE)
  /\ attemptCount = 3
  /\ sinceAttempt = 120000

\* a handleError call whose attemptAutoFix returned false finishes in this step
FailedRepairEnds == repairs'.failed < repairs.failed

\* C27: when an Auto-Repair run fails (no CLI available, all CLIs fail, or the
\* attempt is refused by the rate limit), the Supervisor does not spawn a new
\* Worker after the failed repair and health does not become Starting: the
\* Worker is left Down awaiting manual intervention.
C27_FailedStaysDown ==
  [][FailedRepairEnds => (Spawned = {} /\ coreState' = coreState)]_vars

\* C28: when an error pattern was detected in the error stream of a Worker
\* before it exited (its debounce is still pending or has fired), the exit is
\* answered by Auto-Repair, running or started in that step, and never by
\* arming the plain 2 s restart timer, also when the child exits before the
\* 3 s debounce has elapsed.
C28_DetectedExitRepairs ==
  [][\A c \in Children :
       (Exits(c) /\ errorHandled[c] /\ shouldRun) =>
         (autofixInProgress' /\ restartTimers' = restartTimers)]_vars

\* =========================================================================
\* Worker claims (SpecWorker)
\* =========================================================================

\* the agent-CLI subprocesses the Worker has running: the trySpawn of an
\* intent detection, a Codex run, a Claude run of the queue
IntentRuns == {r \in Reqs : reqs[r].pc = "intent"}
CodexRuns == {r \in Reqs : reqs[r].pc = "codex"}
ClaudeRuns == {id \in Tickets : run[id] = "spawned"}

\* C23: at most one agent-CLI subprocess (Claude run, Codex run or
\* schedule-intent detection) spawned by the Worker is running at any time,
\* while messages of several conversations and scheduled tasks are processed
\* concurrently.
C23_OneCli ==
  Cardinality(IntentRuns) + Cardinality(CodexRuns) + Cardinality(ClaudeRuns) <= 1

\* =========================================================================
\* Gateway claims (SpecGateway, FairSpecGateway)
\* =========================================================================

\* the deliveries that carry (a part of) the response to a message
IsResponse(d) == d.kind \in {"response", "audio"} /\ d.state # "failed"

\* C24: within one conversation, responses are delivered to the channel in
\* the order in which their requests were accepted by the Bridge, even when
\* the second message arrives while the first is still being processed.
C24_InOrder ==
  \A i, j \in DOMAIN delivered :
    (/\ i < j
     /\ IsResponse(delivered[i]) /\ IsResponse(delivered[j])
     /\ chatOf[delivered[i].m] = chatOf[delivered[j].m])
    => delivered[i].m <= delivered[j].m

\* the channel has sent a response part or an error notice for m
Replied(m) == \E i \in DOMAIN delivered :
                delivered[i].m = m /\ delivered[i].state = "sent"

\* C25: every message handed to the Gateway's message handler eventually
\* causes at least one message (the response or an error notice) to be sent
\* to its conversation, whatever the Worker health and whichever Worker or
\* fallback failures occur (a channel that refuses the send set aside).
C25_AlwaysReplied ==
  \A m \in Msgs : (msgs[m].pc # "idle") ~> (Replied(m) \/ handlers[m].failed)

\* =========================================================================
\* Invocation Queue claims under unbounded submission (FairSpecQueueLoop)
\* =========================================================================

\* ticket id waits in the queue with task priority
TaskQueued(id) ==
  \E i \in 1..Len(queue) : queue[i].id = id /\ queue[i].source = "task"

\* ticket id has been picked by processNext, or flushed
TaskLeft(id) == run[id] # "none" \/ id \in flushLog

\* a step that submits a user-priority ticket
UserSubmitted ==
  \E id \in Tickets : meta'[id].source = "user" /\ lastOp'.op = "submit"
                      /\ (meta[id].source # "user" \/ run[id] = "done")

\* C26: a queued task-priority ticket that is not flushed is eventually
\* serviced, even if user-priority tickets keep being submitted while it
\* waits.
C26_NoStarvation == \A id \in Tickets : TaskQueued(id) ~> TaskLeft(id)

\* C26 (amended): a queued task-priority ticket that is not flushed is
\* eventually serviced once user-priority tickets stop being submitted; while
\* they keep coming, each of them is picked before it.
C26_ServedWhenUsersStop ==
  \A id \in Tickets :
    <>[][~UserSubmitted]_vars => (TaskQueued(id) ~> TaskLeft(id))

\* a task ticket waits while a user ticket submitted after it runs, another
\* call having been serviced before
C26_Witness ==
  \E t, u, w \in Tickets :
    /\ TaskQueued(t)
    /\ t < u /\ run[u] = "spawned" /\ meta[u].source = "user"
    /\ run[w] = "done"

\* =========================================================================
\* Auth Recovery claims, continued (SpecLogin)
\* =========================================================================

\* the login subprocess of backend b has printed its URL and is still
\* running, the run is reading its output, the URL was not sent yet and
\* conversations are pending
UrlAwaited(b) ==
  /\ procs[b] > 0
  /\ exitCode[b] = "none"
  /\ printed[b]
  /\ loginPc[b] = "reading"
  /\ ~urlSent[b]
  /\ pendingChatIds[b] # {}

\* C31: in the recovery flow of every backend, when the login subprocess has
\* printed its login URL and is still running, the run can notify the pending
\* conversations of the URL at once, before the subprocess exits: it does not
\* have to wait for the output streams to end.
C31_UrlWhileRunning ==
  \A b \in Backends : UrlAwaited(b) => ENABLED UrlFound(b)

\* an auth-failure trigger of backend b is handled in this step
Trigger(b) ==
  \E c \in Chats \cup {NoChat}, spawned \in BOOLEAN : MaybeStart(b, TRUE, c, spawned)

\* this step starts no attempt for backend b
NoNewAttempt(b) ==
  /\ procs'[b] = procs[b]
  /\ loginInProgress'[b] = loginInProgress[b]
  /\ lastLog' \notin {Logged(b, "starting"), Logged(b, "spawn failed")}

\* the attempt of backend b has just failed or was just aborted: nothing else
\* happened in the recovery flows since
JustFailed(b) ==
  lastLog \in {Logged(b, "finished with exit code"), Logged(b, "spawn failed")}

\* C32 as stated: after a recovery attempt of a backend has failed or been
\* aborted, an auth-failure trigger that arrives within the cooldown window
\* after that failure starts no new attempt, however long the failed attempt
\* ran. Checked for the triggers that arrive first after the failure, which
\* are inside any window that starts at the failure.
C32_AfterFailure ==
  [][\A b \in Backends : (JustFailed(b) /\ Trigger(b)) => NoNewAttempt(b)]_vars

\* C32, amended: the cooldown window starts when an attempt starts. A trigger
\* that arrives while less than RETRY_COOLDOWN_MS have passed since the start
\* of the last attempt starts no new attempt and is logged as skipped, whether
\* that attempt still runs, has failed or was aborted; an attempt whose spawn
\* failed ends inside its window.
C32_Step ==
  \A b \in Backends :
    (cooling[b] /\ lastLog'.backend = b /\ Trigger(b))
      => /\ NoNewAttempt(b)
         /\ lastLog' \in {Logged(b, "duplicate"), Logged(b, "cooldown")}
         /\ cooling' = cooling

C32_AfterStart ==
  /\ [](\A b \in Backends : lastLog = Logged(b, "spawn failed") => cooling[b])
  /\ [][C32_Step]_vars

\* a Codex trigger was just refused by the cooldown: no Codex login runs, the
\* last attempt is over and started less than RETRY_COOLDOWN_MS ago
C32_Witness ==
  /\ lastLog = Logged("codex", "cooldown")
  /\ ~loginInProgress["codex"]
  /\ procs["codex"] = 0
  /\ cooling["codex"]

\* =========================================================================
\* Routing claims of the Bridge, continued (SpecBridgeFew)
\* =========================================================================

StartingPcs == {"st_status", "st_wait", "st_post1", "st_sleep", "st_post2"}

C33_State ==
  \A m \in Msgs :
    msgs[m].route = "starting" =>
      /\ msgs[m].pc \in StartingPcs \cup FallbackPcs
      /\ (msgs[m].pc \in {"st_status", "st_wait"} =>
            msgs[m].posts = 0 /\ msgs[m].notes = 1)
      /\ (msgs[m].pc = "st_wait" => msgs[m].polls < WaitPolls)
      /\ (msgs[m].pc \in {"st_post1", "st_sleep"} => msgs[m].posts = 1)
      /\ (msgs[m].pc = "st_post2" => msgs[m].posts = 2)
      /\ (msgs[m].pc \notin {"fb_chained", "fb_running"} =>
            \A i \in 1..Len(chained) : chained[i] # m)
      /\ FallbackCalls(m) = IF msgs[m].pc = "fb_running" THEN 1 ELSE 0

\* what the wait for health does with the health it observes: the number of
\* polls made so far is polls
C33_Waited(m, polls) ==
  /\ FallbackCalls(m)' = 0
  /\ IF coreState = "up" THEN msgs'[m].pc = "st_post1"
     ELSE IF coreState = "down" \/ polls >= WaitPolls THEN msgs'[m].pc = "fb_status"
     ELSE msgs'[m].pc = "st_wait" /\ msgs'[m].polls = polls

C33_Step ==
  \A m \in Msgs :
    /\ (Routed(m) /\ coreState = "starting") =>
          /\ msgs'[m].route = "starting" /\ msgs'[m].pc = "st_status"
          /\ msgs'[m].notes = 1 /\ msgs'[m].posts = 0
    /\ (msgs[m].route = "starting" /\ msgs'[m] # msgs[m]) =>
          CASE msgs[m].pc = "st_status" ->
                 \/ msgs'[m].pc = "rejected" /\ msgs'[m].statusFailed
                 \/ C33_Waited(m, 0)
            [] msgs[m].pc = "st_wait" -> C33_Waited(m, msgs[m].polls + 1)
            [] msgs[m].pc \in {"st_post1", "st_post2"} ->
                 \/ /\ msgs'[m].pc = "done"
                    /\ msgs'[m].text = "core"
                    /\ FallbackCalls(m)' = 0
                 \/ /\ msgs'[m].pc = IF msgs[m].pc = "st_post1"
                                     THEN "st_sleep" ELSE "fb_status"
                    /\ FallbackCalls(m)' = 0
            [] msgs[m].pc = "st_sleep" -> msgs'[m].pc = "st_post2"
            [] msgs[m].pc = "fb_status" ->
                 \/ msgs'[m].pc = "fb_chained"
                 \/ msgs'[m].pc = "rejected" /\ msgs'[m].statusFailed
            [] msgs[m].pc = "fb_chained" -> msgs'[m].pc = "fb_running"
            [] msgs[m].pc = "fb_running" ->
                 /\ msgs'[m].pc = "done"
                 /\ msgs'[m].text \notin {"none", "core"}
                 /\ FallbackCalls(m)' = 1
            [] OTHER -> FALSE

\* C33: a message routed while health is Starting first sends one status
\* notification and then waits for health, for at most WaitPolls polls of the
\* 500 ms interval: it POSTs to the Worker only at a moment at which it sees
\* health Up (and once more after a failed POST), and it enters the fallback,
\* without a POST, at the first moment at which it sees health Down or the
\* wait has timed out; the fallback is invoked at most once.
C33_StartingRoute == []C33_State /\ [][C33_Step]_vars

\* of two messages routed while health was Starting one retries its POST and
\* the other one, which never posted, runs the fallback while health is still
\* Starting
C33_Witness ==
  \E m, n \in Msgs :
    /\ msgs[m].route = "starting" /\ msgs[m].pc = "st_post2"
    /\ msgs[n].route = "starting" /\ msgs[n].pc = "fb_running"
    /\ coreState = "starting"

\* =========================================================================
\* Supervisor claims, continued (SpecLifeFew, SpecLife)
\* =========================================================================

\* C34: for each Worker child-process instance at most one handleError call
\* is made from its closure, whether by the debounced error-pattern timeout
\* or by the crash-loop test of its onExit.
C34_OneErrorEvent == \A c \in Children : errorsRaised[c] <= 1

\* a child whose error pattern was handled by its debounce timeout has since
\* exited as a rapid crash while no repair was in progress: its onExit passed
\* the crash-loop test's other conditions and armed the restart timer
C34_Witness ==
  \E c \in Children :
    /\ errorsRaised[c] = 1
    /\ c \notin alive
    /\ streamOpen[c]
    /\ crashCount >= RAPID_CRASHES
    /\ ~autofixInProgress
    /\ restartTimers > 0

\* C35: a Worker spawned by a startCore that ran while crashCount exceeded
\* CRASH_LOOP_THRESHOLD has health Down and no health check during its whole
\* lifetime. With one closure at a time (SpecLifeFew) crashCount is written
\* only by the exit of the one child, so while a child is alive crashCount
\* is the value its startCore saw.
C35_CrashLoopStaysDown ==
  (alive # {} /\ crashCount > CRASH_LOOP_THRESHOLD)
    => (coreState = "down" /\ ~healthCheckTimer)

\* C37: health is Up only while the Supervisor is running and a Worker child
\* it spawned is alive: a probe response that arrives after the probed child
\* has exited, or after stopCore, does not set health to Up.
C37_UpOnlyWhileAlive == coreState = "up" => (alive # {} /\ shouldRun)

\* C38: at most one handleError call (notification and Auto-Repair run) is in
\* progress at any time.
C38_OneRepair == InFlight(repairs) <= 1

\* the Supervisor with fewer closures, restart timers and handleError calls at
\* a time, and with no more debounce timeouts armed by exited children and
\* restart timers together than MaxFewTimers
LifeCalm ==
  /\ LifeFew
  /\ Cardinality({c \in Children \ alive : errorDebounce[c] # NoTimer})
       + restartTimers <= MaxFewTimers

\* spawns, exits, error detection and repairs; the health check, which none
\* of them reads, is left out
NextLifeCalm ==
  \/ Boot /\ LifeCalm'
  \/ RestartTimerFired /\ LifeCalm'
  \/ \E c \in Children : OnErrorDetected(c) /\ LifeCalm'
  \/ \E c \in Children : DebounceFired(c) /\ LifeCalm'
  \/ \E c \in Children : OnExit(c) /\ LifeCalm'
  \/ \E c \in Children : StreamEnd(c) /\ LifeCalm'
  \/ WindowElapsed /\ LifeCalm'
  \/ \E fixed \in BOOLEAN : AttemptAutoFixDone(fixed) /\ LifeCalm'
  \/ \E fixed \in BOOLEAN : HandleErrorDone(fixed) /\ LifeCalm'
  \/ StopCore /\ LifeCalm'

\* every timer fires, every stream of an exited child ends and every
\* handleError call settles
FairSpecLifeFew ==
  /\ InitLife /\ [][NextLifeCalm]_vars
  /\ WF_vars(RestartTimerFired /\ LifeCalm')
  /\ WF_vars(\E fixed \in BOOLEAN : AttemptAutoFixDone(fixed) /\ LifeCalm')
  /\ WF_vars(\E fixed \in BOOLEAN : HandleErrorDone(fixed) /\ LifeCalm')
  /\ \A c \in Children : /\ WF_vars(StreamEnd(c) /\ LifeCalm')
                         /\ WF_vars(DebounceFired(c) /\ LifeCalm')

\* no Worker is alive although the Supervisor was started and not stopped
WorkerGone == booted /\ shouldRun /\ alive = {}

\* C36: while the Supervisor has not been stopped, every Worker exit that is
\* not followed by a failed Auto-Repair is eventually followed by a new
\* Worker spawn.
C36_ExitLeadsToSpawn ==
  WorkerGone ~> (alive # {} \/ ~shouldRun \/ repairs.failed > 0)

\* a Worker spawned by the 2 s restart timer after the first exit is alive,
\* and no repair is running
C36_Witness ==
  \E c \in alive :
    /\ startedBy[c] = "start"
    /\ crashCount = 1
    /\ lastCrash = "recent"
    /\ restartTimers = 0
    /\ InFlight(repairs) = 0

\* =========================================================================
\* Bridge claims, continued (SpecBridge)
\* =========================================================================

\* C39: a rejecting onStatus callback does not make sendToCore reject: no
\* call settles as rejected, in the Starting, the Up-retry or the fallback
\* path.
C39_StatusFailureTolerated ==
  \A m \in Msgs : msgs[m].pc # "rejected" /\ ~msgs[m].statusFailed

\* =========================================================================
\* Scheduler claims (SpecScheduler)
\* =========================================================================
InitScheduler == QueueInit /\ LifeInit /\ BridgeIdle /\ LoginInit /\ RestInit
NextScheduler == SchedNext
SpecScheduler == InitScheduler /\ [][NextScheduler]_vars

\* the result of ticket id is handed to the fetch to /send in this step
ResultSent(id) == execs[id].pc = "claude" /\ execs'[id].pc = "send"

\* C40: once a cancelAllChatTasks(c) call has completed, no result of a task
\* of conversation c that was in the task list when the call was made is sent
\* to /send, also when the task's CLI invocation was queued or running at
\* the time of the cancel.
C40_NoStaleResult ==
  [][\A id \in Tickets : ResultSent(id) => execs[id].task \notin cancelled]_vars

\* a cancel has completed for a task whose CLI invocation, running at the time
\* of the cancel, then came back with a result
C40_Witness ==
  \E id \in Tickets :
    /\ execs[id].pc = "claude"
    /\ execs[id].task \in cancelled
    /\ promise[id].state = "fulfilled"
    /\ promise[id].value.kind = "result"

====
